---- MODULE Spec2Model ----
(***************************************************************************)
(* Verification model of the hybrid optimal-control solver of robotoc:     *)
(* the event-aware time discretization, the Riccati recursion over time,   *)
(* impulse, aux and lift stages (src/src/riccati/riccati_recursion.cpp),   *)
(* the switching-time update (src/include/robotoc/hybrid/sto.hxx) and the  *)
(* Newton iteration that drives them.                                      *)
(*                                                                         *)
(* Time is counted in integer ticks.  A step size of the Riccati recursion *)
(* is an integer in 0..AlphaOne, where AlphaOne stands for the full step   *)
(* 1.0; a switching time direction dts is counted in ticks per step-size   *)
(* unit, so that ts + alpha * dts is again a number of ticks.  The         *)
(* interior-point constraint data are exact rationals.                     *)
(*                                                                         *)
(* Specifications: Spec (FairSpec with fairness) is one solve of the       *)
(* driver; SpecPar is one call of computeDirection under every order of    *)
(* its parallel iterations; SpecCalls is computeDirection called on one    *)
(* horizon after another; SpecIP is the slack and dual update of the       *)
(* constraint components over the Newton iterations.                       *)
(***************************************************************************)
EXTENDS Integers, Sequences, FiniteSets, TLC

\* ------------------------------------------------------------------ bounds
NGrid == 3        \* N: number of grid intervals of the horizon
Dt == 4           \* ticks of one ideal grid interval (dt_ideal)
MaxEvents == 2    \* max_num_impulse: reserved number of discrete events
MaxIter == 2      \* max_iterations of one solve
AlphaOne == 3     \* the step size 1.0
Eps == 1          \* eps_: smallest admissible time step, in ticks

T == NGrid * Dt   \* length of the horizon, in ticks

VARIABLES
  ndebug,         \* TRUE: built with NDEBUG, assert() compiled out
  events,         \* ContactSequence: the ordered discrete events
  disc,           \* TimeDiscretization: the events as seen by discretize
  pc,             \* position of the driver in solve
  i,              \* loop index of the running sweep
  iter,           \* Newton iterations applied so far
  reason,         \* exit reason recorded in the solver statistics
  sver,           \* version of the solution s (number of applied steps)
  linRead,        \* solution version read by each linearize work unit
  backLog,        \* calls of the factorizer in this backward sweep, in order
  fwdLog,         \* calls of the factorizer in this forward sweep, in order
  pending,        \* work units of the running parallel section not yet run
  dirWork,        \* work done by the iterations of computeDirection
  accesses,       \* memory accesses of the iterations of computeDirection
  weak,           \* the stage whose constraints bind the step size, or none
  maxPrimal,      \* max_primal_step_sizes_
  maxDual,        \* max_dual_step_sizes_
  nAll,           \* N_all_
  alphaP,         \* primal step size of this iteration
  alphaD,         \* dual step size of this iteration
  dts,            \* switching-time directions d.impulse/aux/lift[k].dts
  stoEnabled,     \* STO::is_sto_enabled_
  trace,          \* phases of this Newton iteration, in the order they ended
  tau,            \* fraction-to-boundary parameter of the constraints
  gcon,           \* value g of each constraint component at the solution
  dgcon,          \* change of g along the primal direction
  slack,          \* ConstraintComponentData::slack
  dual,           \* ConstraintComponentData::dual
  dslack,         \* ConstraintComponentData::dslack
  ddual,          \* ConstraintComponentData::ddual
  ipAlpha,        \* primal and dual step size of the last constraint update
  method,         \* TimeDiscretization::discretization_method_
  nphase,         \* number of grids of each contact phase (N_phase)
  meshLog,        \* last operation on the discretization structure
  kktResidual,    \* a SplitKKTResidual: dimf_, size of lf_full_, last status
  kktMatrix,      \* a SplitKKTMatrix: dimf_, sizes of Qff_full_, Qqf_full_,
                  \* hf_full_, last status
  rrArgs,         \* arguments of the RiccatiRecursion constructor
  rrState,        \* how the construction of the RiccatiRecursion ended
  rrOps,          \* recursion operations run on the constructed object
  costStatus,     \* contact (impulse) status of the KKT data and the solution
  costSol,        \* s.f[i] - f_ref[i] of each contact, first component
  lfVal,          \* values of SplitKKTResidual::lf_full_
  QffVal,         \* values of SplitKKTMatrix::Qff_full_
  costVal,        \* value returned by the last cost evaluation
  costLog,        \* last cost operation, with the KKT data before it
  sto,            \* the STO object: max_num_impulse_events_, kkt_error_,
                  \* cost_val_, h_phase_, state of the STO constraints
  stoKkt,         \* Hamiltonian residuals h and the STO terms of the KKT data
  stoLog,         \* last STO operation, with the data before it
  bc,             \* last call of BackwardCorrection::q_prev and v_prev
  rh,             \* the RaibertHeuristic object
  sc              \* last evaluation of the switching constraint

vars == <<ndebug, events, disc, pc, i, iter, reason, sver, linRead, backLog,
          fwdLog, pending, dirWork, accesses, weak, maxPrimal, maxDual, nAll,
          alphaP, alphaD, dts, stoEnabled, trace, tau, gcon, dgcon, slack,
          dual, dslack, ddual, ipAlpha, method, nphase, meshLog,
          kktResidual, kktMatrix, rrArgs, rrState, rrOps, costStatus,
          costSol, lfVal, QffVal, costVal, costLog, sto, stoKkt, stoLog, bc,
          rh, sc>>

\* ------------------------------------------------------ contact sequence
EventTypes == {"Impulse", "Lift"}

EventRec == [type : EventTypes, t : 1..(T - 1), sto : BOOLEAN]

StrictlyOrdered(es) ==
  \A a, b \in 1..Len(es) : a < b => es[a].t < es[b].t

\* The event times are strictly increasing and strictly inside the horizon.
EventsInOrder(es) ==
  /\ StrictlyOrdered(es)
  /\ \A e \in 1..Len(es) : 0 < es[e].t /\ es[e].t < T

\* The contact sequences a caller hands to the solver: at most MaxEvents
\* events, strictly ordered, strictly inside the horizon.
ContactSequences ==
  {es \in UNION {[1..n -> EventRec] : n \in 0..MaxEvents} : StrictlyOrdered(es)}

\* ---------------------------------------------------- time discretization
N == NGrid

\* Distance between two times.
Dist(a, b) == IF a < b THEN b - a ELSE a - b

\* Grid interval an event time falls into.
GridOf(t) == t \div Dt

\* Part of its interval before / after event e of the sequence es: the
\* event splits the interval it falls into, and so does a neighbouring
\* event of the same interval.
DtPre(es, e) ==
  LET g == GridOf(es[e].t) * Dt
      lo == IF e > 1 /\ es[e - 1].t > g /\ es[e - 1].t < es[e].t
            THEN es[e - 1].t ELSE g
  IN es[e].t - lo

DtPost(es, e) ==
  LET g == (GridOf(es[e].t) + 1) * Dt
      hi == IF e < Len(es) /\ es[e + 1].t < g /\ es[e + 1].t > es[e].t
            THEN es[e + 1].t ELSE g
  IN hi - es[e].t

\* A tractability test that looks at the part before each event only.
TractableNoPost(es) ==
  /\ Dt > Eps
  /\ StrictlyOrdered(es)
  /\ \A e \in 1..Len(es) : es[e].t > 0 /\ es[e].t < T
  /\ \A e \in 1..Len(es) : DtPre(es, e) > Eps

\* isFormulationTractable of the discretization of es: (a) every grid step
\* is above eps, (b) the events are strictly ordered inside the horizon,
\* (c) both parts of the interval of every event are above eps.
Tractable(es) ==
  /\ Dt > Eps
  /\ StrictlyOrdered(es)
  /\ \A e \in 1..Len(es) : es[e].t > 0 /\ es[e].t < T
  /\ \A e \in 1..Len(es) : DtPre(es, e) > Eps /\ DtPost(es, e) > Eps

isFormulationTractable == Tractable(disc)

ImpulseEvents == {e \in 1..Len(disc) : disc[e].type = "Impulse"}
LiftEvents == {e \in 1..Len(disc) : disc[e].type = "Lift"}

N_impulse == Cardinality(ImpulseEvents)
N_lift == Cardinality(LiftEvents)
numDiscreteEvents == N_impulse + N_lift

\* Position in the sequence (1-based) of impulse k / lift k (0-based).
eventOfImpulse(k) ==
  CHOOSE e \in ImpulseEvents : Cardinality({x \in ImpulseEvents : x < e}) = k
eventOfLift(k) ==
  CHOOSE e \in LiftEvents : Cardinality({x \in LiftEvents : x < e}) = k

eventIndexImpulse(k) == eventOfImpulse(k) - 1
eventIndexLift(k) == eventOfLift(k) - 1

timeStageBeforeImpulse(k) == GridOf(disc[eventOfImpulse(k)].t)
timeStageBeforeLift(k) == GridOf(disc[eventOfLift(k)].t)

isTimeStageBeforeImpulse(s) ==
  /\ s \in 0..(N - 1)
  /\ \E k \in 0..(N_impulse - 1) : timeStageBeforeImpulse(k) = s

isTimeStageBeforeLift(s) ==
  /\ s \in 0..(N - 1)
  /\ \E k \in 0..(N_lift - 1) : timeStageBeforeLift(k) = s

impulseIndexAfterTimeStage(s) ==
  CHOOSE k \in 0..(N_impulse - 1) :
    /\ timeStageBeforeImpulse(k) = s
    /\ \A k2 \in 0..(N_impulse - 1) : timeStageBeforeImpulse(k2) = s => k2 <= k

liftIndexAfterTimeStage(s) ==
  CHOOSE k \in 0..(N_lift - 1) :
    /\ timeStageBeforeLift(k) = s
    /\ \A k2 \in 0..(N_lift - 1) : timeStageBeforeLift(k2) = s => k2 <= k

\* A phase count that takes in the event that follows the stage.
contactPhaseWithNextEvent(s) ==
  Cardinality({e \in 1..Len(disc) : GridOf(disc[e].t) <= s})

contactPhase(s) == Cardinality({e \in 1..Len(disc) : GridOf(disc[e].t) < s})

\* Number of contact phases met along the grid.
numContactPhases == Cardinality({contactPhase(s) : s \in 0..N})
contactPhaseAfterImpulse(k) == eventIndexImpulse(k) + 1
contactPhaseAfterLift(k) == eventIndexLift(k) + 1

isSTOEnabledImpulse(k) == disc[eventOfImpulse(k)].sto
isSTOEnabledLift(k) == disc[eventOfLift(k)].sto

\* isSTOEnabledEvent, for event indices from 0; no event, no optimization.
isSTOEnabledEvent(e) == e \in 0..(Len(disc) - 1) /\ disc[e + 1].sto

\* isSTOEnabledPhase: the duration of a phase is optimized if the event that
\* starts it or the event that ends it is.
isSTOEnabledPhase(p) == isSTOEnabledEvent(p - 1) \/ isSTOEnabledEvent(p)

\* isSTOEnabledNextPhase: the flag of the phase that follows phase p.
isSTOEnabledNextPhase(p) == isSTOEnabledPhase(p + 1)

\* The pair (sto, sto_next) that the sweeps pass with time stage s: in the
\* iteration of s if s is just before an event or an ordinary stage, in the
\* iteration of s + 1 if s + 1 is just before an impulse.
SweepFlags(s) ==
  IF isTimeStageBeforeImpulse(s) \/ isTimeStageBeforeLift(s)
  THEN <<isSTOEnabledPhase(contactPhase(s)),
         isSTOEnabledNextPhase(contactPhase(s))>>
  ELSE IF ~isTimeStageBeforeImpulse(s + 1)
  THEN <<isSTOEnabledPhase(contactPhase(s)),
         isSTOEnabledNextPhase(contactPhase(s) + 1)>>
  ELSE <<isSTOEnabledPhase(contactPhase(s + 1)),
         isSTOEnabledNextPhase(contactPhase(s + 1))>>

\* The pair (sto, sto_next) that computeDirection passes with time stage s.
DirectionFlags(s) ==
  <<isSTOEnabledPhase(contactPhase(s)),
    isSTOEnabledNextPhase(contactPhase(s) + 1)>>

\* ----------------------------------------------------------------- stages
Stage(s) == <<"stage", s>>
Impulse(k) == <<"impulse", k>>
Aux(k) == <<"aux", k>>
Lift(k) == <<"lift", k>>

NoSwitching == -1

\* The stages on the horizon of the current discretization.
TimeStages == {Stage(s) : s \in 0..N}
EventStages ==
  {Impulse(k) : k \in 0..(N_impulse - 1)} \cup {Aux(k) : k \in 0..(N_impulse - 1)}
    \cup {Lift(k) : k \in 0..(N_lift - 1)}
AllStages == TimeStages \cup EventStages

\* One call of the factorizer: it reads the slot src and writes the slot
\* dst; sw is the impulse whose switching constraint it takes in, if any.
Call(src, dst, sw) == [src |-> src, dst |-> dst, sw |-> sw]

\* ------------------------------------------------- backward Riccati sweep
\* The assertions of the sweeps at time stage s.
SweepAssert(s) ==
  (isTimeStageBeforeImpulse(s) \/ isTimeStageBeforeLift(s))
    => ~isTimeStageBeforeImpulse(s + 1)

\* factorization[N].P = Qxx of stage N, factorization[N].s = -lx of stage N.
BackwardTerminal == <<Call(<<"kkt", N>>, Stage(N), NoSwitching)>>

\* A backward sweep that takes the switching constraint of impulse k in
\* with the stage just before the impulse instead of the stage before it.
BackwardIterSameStage(s) ==
  IF isTimeStageBeforeImpulse(s) THEN
    LET k == impulseIndexAfterTimeStage(s) IN
      <<Call(Stage(s + 1), Aux(k), NoSwitching),
        Call(Aux(k), Impulse(k), NoSwitching),
        Call(Impulse(k), Stage(s), k)>>
      \o (IF s - 1 >= 0 THEN <<Call(Stage(s), Stage(s - 1), NoSwitching)>> ELSE <<>>)
  ELSE IF isTimeStageBeforeLift(s) THEN
    LET l == liftIndexAfterTimeStage(s) IN
      <<Call(Stage(s + 1), Lift(l), NoSwitching),
        Call(Lift(l), Stage(s), NoSwitching)>>
  ELSE IF ~isTimeStageBeforeImpulse(s + 1) THEN
    <<Call(Stage(s + 1), Stage(s), NoSwitching)>>
  ELSE <<>>

\* The factorizer calls of iteration s of the loop of
\* backwardRiccatiRecursion, in order.
BackwardIter(s) ==
  IF isTimeStageBeforeImpulse(s) THEN
    LET k == impulseIndexAfterTimeStage(s) IN
      <<Call(Stage(s + 1), Aux(k), NoSwitching),
        Call(Aux(k), Impulse(k), NoSwitching),
        Call(Impulse(k), Stage(s), NoSwitching)>>
      \o (IF s - 1 >= 0 THEN <<Call(Stage(s), Stage(s - 1), k)>> ELSE <<>>)
  ELSE IF isTimeStageBeforeLift(s) THEN
    LET l == liftIndexAfterTimeStage(s) IN
      <<Call(Stage(s + 1), Lift(l), NoSwitching),
        Call(Lift(l), Stage(s), NoSwitching)>>
  ELSE IF ~isTimeStageBeforeImpulse(s + 1) THEN
    <<Call(Stage(s + 1), Stage(s), NoSwitching)>>
  ELSE <<>>

\* -------------------------------------------------- forward Riccati sweep
\* d[0].dts = 0 and the switching-time direction of the first phase.
ForwardInitial == <<Call(<<"x0">>, Stage(0), NoSwitching)>>

\* The factorizer calls of iteration s of the loop of
\* forwardRiccatiRecursion, in order.
ForwardIter(s) ==
  IF isTimeStageBeforeImpulse(s) THEN
    LET k == impulseIndexAfterTimeStage(s) IN
      (IF s - 1 >= 0 THEN <<Call(Stage(s - 1), Stage(s), NoSwitching)>> ELSE <<>>)
      \o <<Call(Stage(s), Impulse(k), NoSwitching),
           Call(Impulse(k), Aux(k), NoSwitching),
           Call(Aux(k), Stage(s + 1), NoSwitching)>>
  ELSE IF isTimeStageBeforeLift(s) THEN
    LET l == liftIndexAfterTimeStage(s) IN
      <<Call(Stage(s), Lift(l), NoSwitching),
        Call(Lift(l), Stage(s + 1), NoSwitching)>>
  ELSE IF ~isTimeStageBeforeImpulse(s + 1) THEN
    <<Call(Stage(s), Stage(s + 1), NoSwitching)>>
  ELSE <<>>

\* ------------------------------------------------------- computeDirection
\* A stage count that leaves out the aux stages.
N_allNoAux == N + 1 + N_impulse + N_lift

\* A stage count with three stages for every impulse.
N_allThreePerImpulse == N + 1 + 3 * N_impulse + N_lift

N_all == N + 1 + 2 * N_impulse + N_lift

\* Length of max_primal_step_sizes_ and max_dual_step_sizes_.
StepBufLen == N + 1 + 3 * MaxEvents

None == <<"none">>

\* The stages whose constraints may bind the step size of an iteration.
BindingStages == AllStages \cup {None}

\* maxPrimalStepSize() / maxDualStepSize() of the worker of a stage: the
\* stage whose constraints bind gets the smaller steps.
StagePrimalStep(slot) == IF slot = weak THEN AlphaOne - 1 ELSE AlphaOne
StageDualStep(slot) == IF slot = weak THEN AlphaOne - 2 ELSE AlphaOne

\* An index map whose aux range falls back on the impulse stages.
DirSlotAuxAsImpulse(idx) ==
  IF idx < N THEN Stage(idx)
  ELSE IF idx = N THEN Stage(N)
  ELSE IF idx < N + 1 + N_impulse THEN Impulse(idx - (N + 1))
  ELSE IF idx < N + 1 + 2 * N_impulse THEN Impulse(idx - (N + 1 + N_impulse))
  ELSE Lift(idx - (N + 1 + 2 * N_impulse))

\* The stage that iteration idx of the parallel loop works on.
DirSlot(idx) ==
  IF idx < N THEN Stage(idx)
  ELSE IF idx = N THEN Stage(N)
  ELSE IF idx < N + 1 + N_impulse THEN Impulse(idx - (N + 1))
  ELSE IF idx < N + 1 + 2 * N_impulse THEN Aux(idx - (N + 1 + N_impulse))
  ELSE Lift(idx - (N + 1 + 2 * N_impulse))

\* The impulse whose switching multiplier direction iteration idx computes.
DirSwitching(idx) ==
  IF /\ idx < N
     /\ ~isTimeStageBeforeImpulse(idx)
     /\ ~isTimeStageBeforeLift(idx)
     /\ isTimeStageBeforeImpulse(idx + 1)
  THEN impulseIndexAfterTimeStage(idx + 1)
  ELSE NoSwitching

\* A loop body that keeps the running minimum of the step sizes in entry 0
\* of the two buffers.
DirUnitSharedMin(idx) ==
  [idx |-> idx, slot |-> DirSlot(idx), expand |-> idx # N,
   sw |-> DirSwitching(idx), primal |-> 0, dual |-> 0]

\* Work of iteration idx: the costate direction of its stage, the primal
\* expansion (not at the terminal stage), the multiplier direction of a
\* switching constraint, and the two step-size entries.
DirUnit(idx) ==
  [idx |-> idx, slot |-> DirSlot(idx), expand |-> idx # N,
   sw |-> DirSwitching(idx), primal |-> idx, dual |-> idx]

\* Memory accesses of iteration idx.
Acc(idx, loc, mode) == [idx |-> idx, loc |-> loc, mode |-> mode]

\* A loop body that sets the contact status in the shared contact sequence.
DirAccessesSetStatus(idx) ==
  LET u == DirUnit(idx) IN
    {Acc(idx, <<"discrete">>, "r"),
     Acc(idx, <<"factorization", u.slot>>, "r"),
     Acc(idx, <<"d", u.slot>>, "w"),
     Acc(idx, <<"ocp", u.slot>>, "w"),
     Acc(idx, <<"max_primal_step_sizes", u.primal>>, "w"),
     Acc(idx, <<"max_dual_step_sizes", u.dual>>, "w")}
    \cup (IF u.expand THEN {Acc(idx, <<"contact_sequence">>, "w")} ELSE {})
    \cup (IF u.sw # NoSwitching
          THEN {Acc(idx, <<"factorization.switching", u.sw>>, "r")} ELSE {})

DirAccesses(idx) ==
  LET u == DirUnit(idx) IN
    {Acc(idx, <<"discrete">>, "r"),
     Acc(idx, <<"factorization", u.slot>>, "r"),
     Acc(idx, <<"d", u.slot>>, "w"),
     Acc(idx, <<"ocp", u.slot>>, "w"),
     Acc(idx, <<"max_primal_step_sizes", u.primal>>, "w"),
     Acc(idx, <<"max_dual_step_sizes", u.dual>>, "w")}
    \cup (IF u.expand THEN {Acc(idx, <<"contact_sequence">>, "r")} ELSE {})
    \cup (IF u.sw # NoSwitching
          THEN {Acc(idx, <<"factorization.switching", u.sw>>, "r")} ELSE {})

\* Minimum of the first n entries of a step-size buffer.
RECURSIVE HeadMin(_, _)
HeadMin(buf, n) ==
  IF n <= 1 THEN buf[0]
  ELSE LET m == HeadMin(buf, n - 1) IN IF buf[n - 1] < m THEN buf[n - 1] ELSE m

\* The minimum over the whole buffer instead of its head.
maxPrimalStepSizeWholeBuffer == HeadMin(maxPrimal, StepBufLen)

maxPrimalStepSize == HeadMin(maxPrimal, nAll)
maxDualStepSize == HeadMin(maxDual, nAll)

\* An update that moves an impulse by the direction of its impulse stage
\* instead of its aux stage.
IntegrateSolutionImpulseDts(es, a, d) ==
  IF stoEnabled THEN
    [e \in 1..Len(es) |->
       IF e \in ImpulseEvents
       THEN LET k == Cardinality({x \in ImpulseEvents : x < e}) IN
              IF isSTOEnabledImpulse(k)
              THEN [es[e] EXCEPT !.t = es[e].t + a * d[Impulse(k)]]
              ELSE es[e]
       ELSE LET l == Cardinality({x \in LiftEvents : x < e}) IN
              IF isSTOEnabledLift(l)
              THEN [es[e] EXCEPT !.t = es[e].t + a * d[Lift(l)]]
              ELSE es[e]]
  ELSE es

\* An update that does not ask whether switching-time optimization is
\* enabled.
IntegrateSolutionAlways(es, a, d) ==
  [e \in 1..Len(es) |->
     IF e \in ImpulseEvents
     THEN LET k == Cardinality({x \in ImpulseEvents : x < e}) IN
            IF isSTOEnabledImpulse(k)
            THEN [es[e] EXCEPT !.t = es[e].t + a * d[Aux(k)]]
            ELSE es[e]
     ELSE LET l == Cardinality({x \in LiftEvents : x < e}) IN
            IF isSTOEnabledLift(l)
            THEN [es[e] EXCEPT !.t = es[e].t + a * d[Lift(l)]]
            ELSE es[e]]

\* STO::integrateSolution: the event times after the update, for the
\* contact sequence es, the primal step size a and the direction d.
IntegrateSolution(es, a, d) ==
  IF stoEnabled THEN
    [e \in 1..Len(es) |->
       IF e \in ImpulseEvents
       THEN LET k == Cardinality({x \in ImpulseEvents : x < e}) IN
              IF isSTOEnabledImpulse(k)
              THEN [es[e] EXCEPT !.t = es[e].t + a * d[Aux(k)]]
              ELSE es[e]
       ELSE LET l == Cardinality({x \in LiftEvents : x < e}) IN
              IF isSTOEnabledLift(l)
              THEN [es[e] EXCEPT !.t = es[e].t + a * d[Lift(l)]]
              ELSE es[e]]
  ELSE es

\* Switching-time directions the forward sweep can produce.
DtsSet == {-2, 0, 2}
Directions == [EventStages -> DtsSet]

\* ------------------------------------------------------------------ driver
\* The constraint data before initConstraints.
NoConstraints ==
  /\ tau = <<>>
  /\ gcon = <<>>
  /\ dgcon = <<>>
  /\ slack = <<>>
  /\ dual = <<>>
  /\ dslack = <<>>
  /\ ddual = <<>>
  /\ ipAlpha = <<>>

ExitReasons ==
  {"max_iterations", "converged", "line_search_stalled", "numerical_breakdown",
   "bad_discretization", "infeasible_start"}

\* ------------------------------------------------- split KKT containers
MaxPointContacts == 4   \* Robot::maxPointContacts
DimPerContact == 3      \* dimension of the force of one point contact

\* Largest dimension of the stack of the contact forces.
max_dimf == DimPerContact * MaxPointContacts

\* The contact statuses: the sets of active point contacts.
ContactStatuses == SUBSET (0..(MaxPointContacts - 1))

\* ContactStatus::dimf.
StatusDimf(status) == DimPerContact * Cardinality(status)

\* SplitKKTResidual(robot): the storage is sized for all contacts active and
\* no contact is active.
NewKKTResidual == [dimf |-> 0, lf_full |-> max_dimf, status |-> {}]

\* SplitKKTMatrix(robot).
NewKKTMatrix ==
  [dimf |-> 0, Qff_full |-> <<max_dimf, max_dimf>>,
   Qqf_full_cols |-> max_dimf, hf_full |-> max_dimf, status |-> {}]

\* No STO object, no KKT data of a horizon and no operation yet.
NoSTO == [state |-> "none"]
NoStoKkt == [state |-> "none"]
NoStoLog == [op |-> "none"]

\* No call yet.
NoCall == [op |-> "none"]

\* No RaibertHeuristic object yet.
NoRaibertHeuristic == [state |-> "none"]

\* kkt_res.lf() and kkt_mat.Qff() of a container whose active dimension is
\* dimf, all zero as after construction.
ZeroLf(dimf) == [j \in 1..dimf |-> 0]
ZeroQff(dimf) == [rc \in (1..dimf) \X (1..dimf) |-> 0]

\* The discretization structure after construction (grid based, one contact
\* phase that holds the N grids of the horizon), the split KKT containers
\* after construction, and no RiccatiRecursion constructed yet.
SideInit ==
  /\ method = "GridBased"
  /\ nphase = <<N>>
  /\ meshLog = [op |-> "none", method |-> "GridBased", before |-> <<N>>]
  /\ kktResidual = NewKKTResidual
  /\ kktMatrix = NewKKTMatrix
  /\ rrArgs = [N |-> 0, max_num_impulse |-> 0, nthreads |-> 0]
  /\ rrState = "none"
  /\ rrOps = 0
  /\ costStatus = {}
  /\ costSol = [c \in 0..(MaxPointContacts - 1) |-> 0]
  /\ lfVal = ZeroLf(0)
  /\ QffVal = ZeroQff(0)
  /\ costVal = <<0, 1>>
  /\ costLog = [op |-> "none", dt |-> 0, lf |-> ZeroLf(0), Qff |-> ZeroQff(0)]
  /\ sto = NoSTO
  /\ stoKkt = NoStoKkt
  /\ stoLog = NoStoLog
  /\ bc = NoCall
  /\ rh = NoRaibertHeuristic
  /\ sc = NoCall

Init ==
  /\ SideInit
  /\ ndebug \in BOOLEAN
  /\ stoEnabled \in BOOLEAN
  /\ events \in ContactSequences
  /\ disc = <<>>
  /\ pc = "solve"
  /\ i = 0
  /\ iter = 0
  /\ reason = "none"
  /\ sver = 0
  /\ linRead = {}
  /\ backLog = <<>>
  /\ fwdLog = <<>>
  /\ pending = {}
  /\ dirWork = {}
  /\ accesses = {}
  /\ weak = None
  /\ maxPrimal = [j \in 0..(StepBufLen - 1) |-> 0]
  /\ maxDual = [j \in 0..(StepBufLen - 1) |-> 0]
  /\ nAll = N + 1
  /\ alphaP = 0
  /\ alphaD = 0
  /\ dts = <<>>
  /\ trace = <<>>
  /\ NoConstraints

buildVars == <<ndebug, stoEnabled>>
meshVars == <<method, nphase, meshLog>>
kktVars == <<kktResidual, kktMatrix>>
ctorVars == <<rrArgs, rrState, rrOps>>
costVars == <<costStatus, costSol, lfVal, QffVal, costVal, costLog>>
stoVars == <<sto, stoKkt, stoLog>>
unitVars == <<stoVars, bc, rh, sc>>
sideVars == <<meshVars, kktVars, ctorVars, costVars, unitVars>>
ipVars == <<tau, gcon, dgcon, slack, dual, dslack, ddual, ipAlpha>>
sweepVars == <<i, backLog, fwdLog>>
parVars == <<pending, dirWork, accesses, weak>>
stepVars == <<maxPrimal, maxDual, nAll>>
searchVars == <<alphaP, alphaD>>

Exit(r) == pc' = "exit" /\ reason' = r

\* solve: the warm start is feasible, or is restored by enlarging the
\* slacks, or the solve ends with "infeasible_start".
SolveStart ==
  /\ pc = "solve"
  /\ \/ pc' = "discretize" /\ UNCHANGED reason
     \/ Exit("infeasible_start")
  /\ UNCHANGED <<sideVars, ipVars, buildVars, events, disc, iter, sver, linRead, sweepVars,
                 parVars, stepVars, searchVars, dts, trace>>

\* A discretize that hands every discretization on to linearize.
DiscretizeUnchecked ==
  /\ pc = "discretize"
  /\ disc' = events
  /\ trace' = <<>>
  /\ alphaP' = 0
  /\ alphaD' = 0
  /\ dts' = <<>>
  /\ pc' = "linearize_fork"
  /\ UNCHANGED <<sideVars, ipVars, buildVars, events, iter, reason, sver,
                 linRead, sweepVars, parVars, stepVars>>

\* discretize: the discretization of the current contact sequence; a
\* discretization that is not tractable is refused.
Discretize ==
  /\ pc = "discretize"
  /\ disc' = events
  /\ trace' = <<>>
  /\ alphaP' = 0
  /\ alphaD' = 0
  /\ dts' = <<>>
  /\ IF Tractable(events)
     THEN pc' = "linearize_fork" /\ UNCHANGED reason
     ELSE Exit("bad_discretization")
  /\ UNCHANGED <<sideVars, ipVars, buildVars, events, iter, sver, linRead, sweepVars, parVars,
                 stepVars>>

\* Linearize: one work unit per stage.
LinearizeFork ==
  /\ pc = "linearize_fork"
  /\ pending' = 0..(N_all - 1)
  /\ linRead' = {}
  /\ pc' = "linearize"
  /\ UNCHANGED <<sideVars, ipVars, buildVars, events, disc, iter, reason, sver, sweepVars,
                 dirWork, accesses, weak, stepVars, searchVars, dts, trace>>

\* The driver's specification follows the schedule of one thread, lowest
\* index first; SpecPar runs the iterations of computeDirection in every
\* order.
FirstPending == CHOOSE idx \in pending : \A j \in pending : idx <= j

LinearizeUnit ==
  /\ pc = "linearize"
  /\ pending # {}
  /\ pending' = pending \ {FirstPending}
  /\ linRead' = linRead \cup {<<FirstPending, sver>>}
  /\ UNCHANGED <<sideVars, ipVars, buildVars, events, disc, pc, iter, reason, sver, sweepVars,
                 dirWork, accesses, weak, stepVars, searchVars, dts, trace>>

\* A join that does not wait for the pending work units.
LinearizeJoinEarly ==
  /\ pc = "linearize"
  /\ trace' = Append(trace, "linearize")
  /\ \/ pc' = "backward_init" /\ UNCHANGED reason
     \/ Exit("converged")
  /\ UNCHANGED <<sideVars, ipVars, buildVars, events, disc, iter, sver, linRead, sweepVars,
                 parVars, stepVars, searchVars, dts>>

\* The join of linearize and the convergence test on the KKT error.
LinearizeJoin ==
  /\ pc = "linearize"
  /\ pending = {}
  /\ trace' = Append(trace, "linearize")
  /\ \/ pc' = "backward_init" /\ UNCHANGED reason
     \/ Exit("converged")
  /\ UNCHANGED <<sideVars, ipVars, buildVars, events, disc, iter, sver, linRead, sweepVars,
                 parVars, stepVars, searchVars, dts>>

BackwardInit ==
  /\ pc = "backward_init"
  /\ backLog' = BackwardTerminal
  /\ i' = N - 1
  /\ pc' = "backward"
  /\ UNCHANGED <<sideVars, ipVars, buildVars, events, disc, iter, reason, sver, linRead, fwdLog,
                 parVars, stepVars, searchVars, dts, trace>>

\* One iteration of the loop of backwardRiccatiRecursion.
BackwardStep ==
  /\ pc = "backward"
  /\ IF ~SweepAssert(i) /\ ~ndebug
     THEN /\ pc' = "aborted"
          /\ UNCHANGED <<i, backLog, trace>>
     ELSE /\ backLog' = backLog \o BackwardIter(i)
          /\ i' = i - 1
          /\ IF i = 0
             THEN pc' = "forward_init" /\ trace' = Append(trace, "backward")
             ELSE pc' = "backward" /\ UNCHANGED trace
  /\ UNCHANGED <<sideVars, ipVars, buildVars, events, disc, iter, reason, sver, linRead, fwdLog,
                 parVars, stepVars, searchVars, dts>>

\* The Cholesky factorization of Quu fails after the regularization cap.
CholeskyFailure ==
  /\ pc = "backward"
  /\ Exit("numerical_breakdown")
  /\ UNCHANGED <<sideVars, ipVars, buildVars, events, disc, iter, sver, linRead, sweepVars,
                 parVars, stepVars, searchVars, dts, trace>>

ForwardInit ==
  /\ pc = "forward_init"
  /\ fwdLog' = ForwardInitial
  /\ i' = 0
  /\ pc' = "forward"
  /\ UNCHANGED <<sideVars, ipVars, buildVars, events, disc, iter, reason, sver, linRead, backLog,
                 parVars, stepVars, searchVars, dts, trace>>

\* One iteration of the loop of forwardRiccatiRecursion.
ForwardStep ==
  /\ pc = "forward"
  /\ IF ~SweepAssert(i) /\ ~ndebug
     THEN /\ pc' = "aborted"
          /\ UNCHANGED <<i, fwdLog, trace>>
     ELSE /\ fwdLog' = fwdLog \o ForwardIter(i)
          /\ i' = i + 1
          /\ IF i = N - 1
             THEN pc' = "direction_fork" /\ trace' = Append(trace, "forward")
             ELSE pc' = "forward" /\ UNCHANGED trace
  /\ UNCHANGED <<sideVars, ipVars, buildVars, events, disc, iter, reason, sver, linRead, backLog,
                 parVars, stepVars, searchVars, dts>>

\* computeDirection: the fork of the parallel loop.  The stage whose
\* constraints bind the step is an input of the iteration.
DirectionFork ==
  /\ pc = "direction_fork"
  /\ pending' = 0..(N_all - 1)
  /\ dirWork' = {}
  /\ accesses' = {}
  /\ weak' \in BindingStages
  /\ pc' = "direction"
  /\ UNCHANGED <<sideVars, ipVars, buildVars, events, disc, iter, reason, sver, linRead,
                 sweepVars, stepVars, searchVars, dts, trace>>

\* Iteration idx of the parallel loop of computeDirection.
DirectionIter(idx) ==
  LET u == DirUnit(idx) IN
    /\ pending' = pending \ {idx}
    /\ dirWork' = dirWork \cup {u}
    /\ accesses' = accesses \cup DirAccesses(idx)
    /\ maxPrimal' = [maxPrimal EXCEPT ![u.primal] = StagePrimalStep(u.slot)]
    /\ maxDual' = [maxDual EXCEPT ![u.dual] = StageDualStep(u.slot)]
    /\ UNCHANGED <<sideVars, ipVars, buildVars, events, disc, pc, iter, reason, sver, linRead,
                   sweepVars, weak, nAll, searchVars, dts, trace>>

\* The iterations in the order of one thread.
DirectionNext ==
  /\ pc = "direction"
  /\ pending # {}
  /\ DirectionIter(FirstPending)

\* The iterations in any order.
DirectionUnit ==
  /\ pc = "direction"
  /\ \E idx \in pending : DirectionIter(idx)

\* The join of the parallel loop: N_all_ = N_all.
DirectionJoin ==
  /\ pc = "direction"
  /\ pending = {}
  /\ nAll' = N_all
  /\ trace' = Append(trace, "direction")
  /\ pc' = "linesearch"
  /\ UNCHANGED <<sideVars, ipVars, buildVars, events, disc, iter, reason, sver, linRead,
                 sweepVars, parVars, maxPrimal, maxDual, searchVars, dts>>

\* Step sizes the backtracking of the line search tries from the largest
\* admissible step a: a itself and the next smaller one.
StepCandidates(a) == {b \in {a - 1, a} : b >= 1}

\* A line search whose failure ends the solve without recording why.
LineSearchNoReason ==
  /\ pc = "linesearch"
  /\ trace' = Append(trace, "linesearch")
  /\ \/ /\ \E a \in StepCandidates(maxPrimalStepSize) : alphaP' = a
        /\ alphaD' = maxDualStepSize
        /\ pc' = "apply"
        /\ UNCHANGED reason
     \/ /\ pc' = "exit"
        /\ UNCHANGED <<reason, searchVars>>
  /\ UNCHANGED <<sideVars, ipVars, buildVars, events, disc, iter, sver, linRead, sweepVars,
                 parVars, stepVars, dts>>

\* Line search: backtracking from the largest admissible primal step; the
\* dual step is the fraction-to-boundary step.
LineSearch ==
  /\ pc = "linesearch"
  /\ trace' = Append(trace, "linesearch")
  /\ \/ /\ \E a \in StepCandidates(maxPrimalStepSize) : alphaP' = a
        /\ alphaD' = maxDualStepSize
        /\ pc' = "apply"
        /\ UNCHANGED reason
     \/ /\ Exit("line_search_stalled")
        /\ UNCHANGED searchVars
  /\ UNCHANGED <<sideVars, ipVars, buildVars, events, disc, iter, sver, linRead, sweepVars,
                 parVars, stepVars, dts>>

\* Apply the step: the solution, and the switching times.
Apply ==
  /\ pc = "apply"
  /\ sver' = sver + 1
  /\ \E d \in Directions :
       /\ dts' = d
       /\ events' = IntegrateSolution(events, alphaP, d)
  /\ iter' = iter + 1
  /\ trace' = Append(trace, "apply")
  /\ IF iter + 1 >= MaxIter
     THEN Exit("max_iterations")
     ELSE pc' = "discretize" /\ UNCHANGED reason
  /\ UNCHANGED <<sideVars, ipVars, buildVars, disc, linRead, sweepVars, parVars, stepVars,
                 searchVars>>

Next ==
  \/ SolveStart
  \/ Discretize
  \/ LinearizeFork
  \/ LinearizeUnit
  \/ LinearizeJoin
  \/ BackwardInit
  \/ BackwardStep
  \/ CholeskyFailure
  \/ ForwardInit
  \/ ForwardStep
  \/ DirectionFork
  \/ DirectionNext
  \/ DirectionJoin
  \/ LineSearch
  \/ Apply

Spec == Init /\ [][Next]_vars

\* The driver thread keeps running until solve returns.
FairSpec == Spec /\ WF_vars(Next)

\* ------------------------------------ computeDirection under every schedule
TractableSequences == {es \in ContactSequences : Tractable(es)}

InitPar ==
  /\ SideInit
  /\ ndebug = TRUE
  /\ stoEnabled = FALSE
  /\ events \in TractableSequences
  /\ disc = events
  /\ pc = "direction_fork"
  /\ i = 0
  /\ iter = 0
  /\ reason = "none"
  /\ sver = 0
  /\ linRead = {}
  /\ backLog = <<>>
  /\ fwdLog = <<>>
  /\ pending = {}
  /\ dirWork = {}
  /\ accesses = {}
  /\ weak = None
  /\ maxPrimal = [j \in 0..(StepBufLen - 1) |-> 0]
  /\ maxDual = [j \in 0..(StepBufLen - 1) |-> 0]
  /\ nAll = N + 1
  /\ alphaP = 0
  /\ alphaD = 0
  /\ dts = <<>>
  /\ trace = <<>>
  /\ NoConstraints

NextPar ==
  \/ DirectionFork
  \/ DirectionUnit
  \/ DirectionJoin

SpecPar == InitPar /\ [][NextPar]_vars

\* ------------------------- computeDirection called on one horizon after another
MaxCalls == 2

\* The caller hands the next horizon to the recursion.
NewCall ==
  /\ pc = "linesearch"
  /\ iter + 1 < MaxCalls
  /\ iter' = iter + 1
  /\ \E es \in TractableSequences : events' = es /\ disc' = es
  /\ pc' = "direction_fork"
  /\ UNCHANGED <<sideVars, ipVars, buildVars, reason, sver, linRead, sweepVars, parVars,
                 stepVars, searchVars, dts, trace>>

NextCalls ==
  \/ NewCall
  \/ DirectionFork
  \/ DirectionNext
  \/ DirectionJoin

SpecCalls == InitPar /\ [][NextCalls]_vars

\* --------------------------------- interior-point constraint components
\* Slack, dual and step sizes are rationals <<numerator, denominator>> in
\* lowest terms with a positive denominator.
RECURSIVE Gcd(_, _)
Gcd(a, b) == IF b = 0 THEN a ELSE Gcd(b, a % b)

Abs(x) == IF x < 0 THEN -x ELSE x

Rat(n, d) == LET g == Gcd(Abs(n), d) IN <<n \div g, d \div g>>

RInt(n) == <<n, 1>>
RNeg(a) == <<-a[1], a[2]>>
RAdd(a, b) ==
  LET g == Gcd(a[2], b[2]) IN
    Rat(a[1] * (b[2] \div g) + b[1] * (a[2] \div g), (a[2] \div g) * b[2])
RSub(a, b) == RAdd(a, RNeg(b))
RMul(a, b) ==
  LET g == Gcd(Abs(a[1]), b[2])
      h == Gcd(Abs(b[1]), a[2])
  IN Rat((a[1] \div g) * (b[1] \div h), (a[2] \div h) * (b[2] \div g))
RDiv(a, b) ==
  IF b[1] > 0 THEN RMul(a, <<b[2], b[1]>>) ELSE RMul(a, <<-b[2], -b[1]>>)
RLess(a, b) == a[1] * b[2] < b[1] * a[2]
RMin(a, b) == IF RLess(b, a) THEN b ELSE a
RPos(a) == a[1] > 0

NComp == 2                      \* constraint components of the model
Comps == 1..NComp

\* The barrier parameter: positive.
Barrier == RInt(1)

\* Fraction-to-boundary parameters, strictly between 0 and 1.
TauSet == {<<1, 2>>, <<9, 10>>}

\* Constraint values g at the warm start (g > 0: infeasible) and changes
\* dg of g along a primal direction.
GSet == {-2, -1, 1}
DgSet == {-1, 0, 3}

\* setSlack: slack <- -g, projected to at least the barrier;
\* dual <- barrier / slack.
SetSlack(g) == IF RLess(RNeg(g), Barrier) THEN Barrier ELSE RNeg(g)
SetDual(sl) == RDiv(Barrier, sl)

\* expandSlackAndDual: dslack <- -dg - residual with residual = g + slack;
\* ddual <- -(dual / slack) * dslack - cmpl / slack with
\* cmpl = slack * dual - barrier.
ExpandSlack(g, dg, sl) == RSub(RNeg(dg), RAdd(g, sl))
ExpandDual(sl, du, dsl) ==
  RSub(RNeg(RMul(RDiv(du, sl), dsl)), RDiv(RSub(RMul(sl, du), Barrier), sl))

\* A step to the boundary itself: the fraction is left out.
FractionToBoundaryFull(fr, v, dv) ==
  IF dv[1] < 0 THEN RMin(RInt(1), RDiv(RNeg(v), dv)) ELSE RInt(1)

\* Fraction-to-boundary rule of one element: the largest alpha in (0, 1]
\* with v + alpha * dv >= (1 - fr) * v.
FractionToBoundary(fr, v, dv) ==
  IF dv[1] < 0 THEN RMin(RInt(1), RDiv(RNeg(RMul(fr, v)), dv)) ELSE RInt(1)

\* maxPrimalStepSize / maxDualStepSize: the minimum over the components.
RECURSIVE StepOver(_, _, _, _)
StepOver(fr, v, dv, n) ==
  IF n = 0 THEN RInt(1)
  ELSE RMin(FractionToBoundary(fr, v[n], dv[n]), StepOver(fr, v, dv, n - 1))

\* Steps the line search takes from the largest admissible step a.
Backtracked(a) == {a, RMul(a, <<1, 2>>)}

InitIP ==
  /\ SideInit
  /\ ndebug = TRUE
  /\ stoEnabled = FALSE
  /\ events = <<>>
  /\ disc = <<>>
  /\ pc = "ip_init"
  /\ i = 0
  /\ iter = 0
  /\ reason = "none"
  /\ sver = 0
  /\ linRead = {}
  /\ backLog = <<>>
  /\ fwdLog = <<>>
  /\ pending = {}
  /\ dirWork = {}
  /\ accesses = {}
  /\ weak = None
  /\ maxPrimal = [j \in 0..(StepBufLen - 1) |-> 0]
  /\ maxDual = [j \in 0..(StepBufLen - 1) |-> 0]
  /\ nAll = N + 1
  /\ alphaP = 0
  /\ alphaD = 0
  /\ dts = <<>>
  /\ trace = <<>>
  /\ tau \in TauSet
  /\ gcon \in [Comps -> {RInt(g) : g \in GSet}]
  /\ dgcon = <<>>
  /\ slack = <<>>
  /\ dual = <<>>
  /\ dslack = <<>>
  /\ ddual = <<>>
  /\ ipAlpha = <<>>

riccatiVars ==
  <<ndebug, stoEnabled, events, disc, i, reason, linRead, backLog, fwdLog,
    pending, dirWork, accesses, weak, maxPrimal, maxDual, nAll, alphaP,
    alphaD, dts, trace>>

\* initConstraints: setSlack on every component.
InitConstraints ==
  /\ pc = "ip_init"
  /\ slack' = [c \in Comps |-> SetSlack(gcon[c])]
  /\ dual' = [c \in Comps |-> SetDual(SetSlack(gcon[c]))]
  /\ pc' = "ip_expand"
  /\ UNCHANGED <<sideVars, riccatiVars, iter, sver, tau, gcon, dgcon, dslack, ddual,
                 ipAlpha>>

\* expandSlackAndDual on every component, for a primal direction that
\* changes g by dg.
ExpandSlackAndDual ==
  /\ pc = "ip_expand"
  /\ iter < MaxIter
  /\ \E dg \in [Comps -> DgSet] :
       /\ dslack' = [c \in Comps |-> ExpandSlack(gcon[c], RInt(dg[c]), slack[c])]
       /\ ddual' = [c \in Comps |->
            ExpandDual(slack[c], dual[c],
                       ExpandSlack(gcon[c], RInt(dg[c]), slack[c]))]
       /\ dgcon' = [c \in Comps |-> RInt(dg[c])]
  /\ pc' = "ip_update"
  /\ UNCHANGED <<sideVars, riccatiVars, iter, sver, tau, gcon, slack, dual, ipAlpha>>

\* The applied step: updateSlack with the primal step the line search
\* took, updateDual with the dual step.
UpdateSlackAndDual ==
  /\ pc = "ip_update"
  /\ \E a \in Backtracked(StepOver(tau, slack, dslack, NComp)) :
       LET b == StepOver(tau, dual, ddual, NComp) IN
         /\ slack' = [c \in Comps |-> RAdd(slack[c], RMul(a, dslack[c]))]
         /\ dual' = [c \in Comps |-> RAdd(dual[c], RMul(b, ddual[c]))]
         /\ gcon' = [c \in Comps |-> RAdd(gcon[c], RMul(a, dgcon[c]))]
         /\ ipAlpha' = <<a, b>>
  /\ iter' = iter + 1
  /\ sver' = sver + 1
  /\ pc' = "ip_expand"
  /\ UNCHANGED <<sideVars, riccatiVars, tau, dgcon, dslack, ddual>>

NextIP ==
  \/ InitConstraints
  \/ ExpandSlackAndDual
  \/ UpdateSlackAndDual

SpecIP == InitIP /\ [][NextIP]_vars

\* ---------------------------------------------- discretization structure
\* discretize and meshRefinement as operations on the structure of the
\* discretization, the number of grids of each contact phase, under both
\* discretization methods.
MaxT0 == 1        \* largest initial time t of the horizon, in ticks

Methods == {"GridBased", "PhaseBased"}

\* Sum of the entries of a sequence of numbers.
RECURSIVE SumSeq(_)
SumSeq(q) == IF q = <<>> THEN 0 ELSE q[1] + SumSeq(Tail(q))

\* Start times of the time steps of the grid-based discretization of es on
\* the horizon that starts at t: the grid points but the last, and the
\* events.
GridStarts(es, t) ==
  {t + k * Dt : k \in 0..(N - 1)} \cup {es[e].t : e \in 1..Len(es)}

\* Grid-based structure: the number of time steps that start in each contact
\* phase; phase p runs from event p (the initial time for p = 0) to event
\* p + 1 (the end of the horizon for the last phase).
GridPhases(es, t) ==
  [p \in 1..(Len(es) + 1) |->
     LET from == IF p = 1 THEN t ELSE es[p - 1].t
         to == IF p = Len(es) + 1 THEN t + T ELSE es[p].t
     IN Cardinality({x \in GridStarts(es, t) : from <= x /\ x < to})]

\* A discretize that rebuilds the structure from the grid under either
\* method.
DiscretizePhasesAlwaysGrid(m, np, es, t) == GridPhases(es, t)

\* The structure after discretize under method m, for the structure np
\* before it, the contact sequence es and the initial time t.
DiscretizePhases(m, np, es, t) ==
  IF m = "GridBased" THEN GridPhases(es, t) ELSE np

\* A refinement that takes a grid from phase p and gives it to no phase.
RefinePhasesDropGrid(np, p, q) == [np EXCEPT ![p] = @ - 1]

\* meshRefinement under PhaseBased: one grid goes from phase p to phase q.
RefinePhases(np, p, q) == [np EXCEPT ![p] = @ - 1, ![q] = @ + 1]

\* The contact sequences with the events of es at other times: every event
\* stays or moves by half a grid step, and the order is kept.
Retimed(es) ==
  {fs \in {[e \in 1..Len(es) |-> [es[e] EXCEPT !.t = @ + d[e]]] :
             d \in [1..Len(es) -> {0 - (Dt \div 2), 0, Dt \div 2}]} :
     EventsInOrder(fs)}

solverVars ==
  <<ndebug, disc, pc, i, iter, reason, sver, linRead, backLog, fwdLog,
    pending, dirWork, accesses, weak, maxPrimal, maxDual, nAll, alphaP,
    alphaD, dts, stoEnabled, trace, ipVars>>

\* The solver's own state while no solve is running.
SolverIdle ==
  /\ disc = <<>>
  /\ pc = "mesh"
  /\ i = 0
  /\ iter = 0
  /\ reason = "none"
  /\ sver = 0
  /\ linRead = {}
  /\ backLog = <<>>
  /\ fwdLog = <<>>
  /\ pending = {}
  /\ dirWork = {}
  /\ accesses = {}
  /\ weak = None
  /\ maxPrimal = [j \in 0..(StepBufLen - 1) |-> 0]
  /\ maxDual = [j \in 0..(StepBufLen - 1) |-> 0]
  /\ nAll = N + 1
  /\ alphaP = 0
  /\ alphaD = 0
  /\ dts = <<>>
  /\ trace = <<>>
  /\ NoConstraints

InitMesh ==
  /\ SideInit
  /\ ndebug = TRUE
  /\ stoEnabled = TRUE
  /\ events \in TractableSequences
  /\ SolverIdle

MeshLogged(op) ==
  meshLog' = [op |-> op, method |-> method, before |-> nphase]

\* setDiscretizationMethod.
SetDiscretizationMethod ==
  /\ pc = "mesh"
  /\ \E m \in Methods : method' = m
  /\ MeshLogged("setDiscretizationMethod")
  /\ UNCHANGED <<solverVars, kktVars, ctorVars, costVars, unitVars, events, nphase>>

\* The switching times move, by a switching-time update or by the caller.
SetEventTimes ==
  /\ pc = "mesh"
  /\ \E fs \in Retimed(events) : events' = fs
  /\ MeshLogged("setEventTimes")
  /\ UNCHANGED <<solverVars, kktVars, ctorVars, costVars, unitVars, method, nphase>>

\* discretize(contact_sequence, t).  Under PhaseBased the structure at hand
\* has to be one of this contact sequence.
MeshDiscretize ==
  /\ pc = "mesh"
  /\ method = "PhaseBased" => Len(nphase) = Len(events) + 1
  /\ \E t \in 0..MaxT0 :
       /\ \A e \in 1..Len(events) : t < events[e].t
       /\ nphase' = DiscretizePhases(method, nphase, events, t)
  /\ MeshLogged("discretize")
  /\ UNCHANGED <<solverVars, kktVars, ctorVars, costVars, unitVars, events, method>>

\* meshRefinement(contact_sequence, t).
MeshRefinement ==
  /\ pc = "mesh"
  /\ IF method = "PhaseBased"
     THEN \/ \E p, q \in 1..Len(nphase) :
               /\ p # q
               /\ nphase[p] >= 2
               /\ nphase' = RefinePhases(nphase, p, q)
          \/ UNCHANGED nphase
     ELSE UNCHANGED nphase
  /\ MeshLogged("meshRefinement")
  /\ UNCHANGED <<solverVars, kktVars, ctorVars, costVars, unitVars, events, method>>

NextMesh ==
  \/ SetDiscretizationMethod
  \/ SetEventTimes
  \/ MeshDiscretize
  \/ MeshRefinement

SpecMesh == InitMesh /\ [][NextMesh]_vars

\* ------------------------------------- contact status of the KKT containers
\* A setContactStatus that resizes the storage to the active dimension.
ResidualSetContactStatusResizing(r, status) ==
  [r EXCEPT !.dimf = StatusDimf(status), !.lf_full = StatusDimf(status),
            !.status = status]

\* SplitKKTResidual::setContactStatus.
ResidualSetContactStatus(r, status) ==
  [r EXCEPT !.dimf = StatusDimf(status), !.status = status]

\* SplitKKTMatrix::setContactStatus.
MatrixSetContactStatus(m, status) ==
  [m EXCEPT !.dimf = StatusDimf(status), !.status = status]

\* Size of the head of length n of a vector of size full (Eigen's head(n));
\* a head longer than the vector does not exist.
HeadSize(full, n) == IF n <= full THEN n ELSE -1

\* Sizes of the contact-sized accessors.
lf(r) == HeadSize(r.lf_full, r.dimf)
hf(m) == HeadSize(m.hf_full, m.dimf)
Qff(m) ==
  <<HeadSize(m.Qff_full[1], m.dimf), HeadSize(m.Qff_full[2], m.dimf)>>
Qqf_cols(m) == HeadSize(m.Qqf_full_cols, m.dimf)

\* isDimensionConsistent of the contact-sized parts.
ResidualIsDimensionConsistent(r) == lf(r) = r.dimf
MatrixIsDimensionConsistent(m) ==
  /\ Qff(m) = <<m.dimf, m.dimf>>
  /\ Qqf_cols(m) = m.dimf
  /\ hf(m) = m.dimf

InitKKT ==
  /\ SideInit
  /\ ndebug = TRUE
  /\ stoEnabled = FALSE
  /\ events = <<>>
  /\ SolverIdle

\* kkt_res.setContactStatus(contact_status).
KKTResidualSetContactStatus ==
  /\ pc = "mesh"
  /\ \E status \in ContactStatuses :
       kktResidual' = ResidualSetContactStatus(kktResidual, status)
  /\ UNCHANGED <<solverVars, meshVars, ctorVars, costVars, unitVars, events, kktMatrix>>

\* kkt_mat.setContactStatus(contact_status).
KKTMatrixSetContactStatus ==
  /\ pc = "mesh"
  /\ \E status \in ContactStatuses :
       kktMatrix' = MatrixSetContactStatus(kktMatrix, status)
  /\ UNCHANGED <<solverVars, meshVars, ctorVars, costVars, unitVars, events, kktResidual>>

NextKKT ==
  \/ KKTResidualSetContactStatus
  \/ KKTMatrixSetContactStatus

SpecKKT == InitKKT /\ [][NextKKT]_vars

\* ------------------------------------- construction of RiccatiRecursion
MaxArg == 2       \* largest constructor argument tried
MinArg == 0 - MaxArg
MaxOps == 2       \* recursion operations run on one object

CtorArgs ==
  [N : MinArg..MaxArg, max_num_impulse : MinArg..MaxArg,
   nthreads : MinArg..MaxArg]

\* The arguments the constructor's checks let through.
ValidArgs(a) == a.N > 0 /\ a.max_num_impulse >= 0 /\ a.nthreads > 0

\* A constructor that does not look at nthreads.
CtorOutcomesNoThreadCheck(a, nd) ==
  IF a.N > 0 /\ a.max_num_impulse >= 0 THEN {"constructed"}
  ELSE {"exit_failure"}

\* How RiccatiRecursion(robot, N, max_num_impulse, nthreads) can end, in a
\* build with NDEBUG (nd) or without.  The member initializers run before
\* the checks of the body: sto_policy_ is a std::vector of
\* 2*max_num_impulse+1 elements, which throws for a negative size; the step
\* size buffers are Eigen vectors of N+1+3*max_num_impulse elements, which
\* for a negative size fail an Eigen assertion, or with NDEBUG throw or go
\* on; lqr_policy_ is sized from N and max_num_impulse by code that is not
\* at hand, and for a negative N may throw or go on.  The order of the
\* members is the one of the class declaration, which is not at hand, so
\* any of the failing initializers may be the one that ends the
\* construction.  The body, once reached, prints the message of the first
\* failing check and exits.
CtorOutcomes(a, nd) ==
  IF ValidArgs(a) THEN {"constructed"}
  ELSE
    LET bufLen == a.N + 1 + 3 * a.max_num_impulse
        vectorThrows == a.max_num_impulse < 0
        eigenNegative == bufLen < 0
        policyUnknown == a.N < 0 \/ a.max_num_impulse < 0
    IN (IF vectorThrows THEN {"exception"} ELSE {"exit_failure"})
         \cup (IF eigenNegative
               THEN (IF nd THEN {"exception"} ELSE {"abort"}) ELSE {})
         \cup (IF policyUnknown THEN {"exception"} ELSE {})

InitCtor ==
  /\ SideInit
  /\ ndebug \in BOOLEAN
  /\ stoEnabled = FALSE
  /\ events = <<>>
  /\ SolverIdle

\* RiccatiRecursion::RiccatiRecursion(robot, N, max_num_impulse, nthreads).
Construct ==
  /\ pc = "mesh"
  /\ rrState = "none"
  /\ \E a \in CtorArgs :
       /\ rrArgs' = a
       /\ \E o \in CtorOutcomes(a, ndebug) : rrState' = o
  /\ UNCHANGED <<solverVars, meshVars, kktVars, costVars, unitVars, events, rrOps>>

\* backwardRiccatiRecursion, forwardRiccatiRecursion, computeDirection or a
\* step size query on the constructed object.
RecursionOperation ==
  /\ pc = "mesh"
  /\ rrState = "constructed"
  /\ rrOps < MaxOps
  /\ rrOps' = rrOps + 1
  /\ UNCHANGED <<solverVars, meshVars, kktVars, costVars, unitVars, events, rrArgs, rrState>>

NextCtor ==
  \/ Construct
  \/ RecursionOperation

SpecCtor == InitCtor /\ [][NextCtor]_vars

\* ------------------------------------------------ local contact force cost
\* The cost on the contact forces, as the reference computation of
\* test/cost/local_contact_force_cost_test.cpp spells it out.
MaxDt == 2        \* largest time step dt of a stage, in ticks

Contacts == 0..(MaxPointContacts - 1)
Components == 1..DimPerContact

\* f_weight[i] and fi_weight[i]: the weights set by set_f_weight and
\* set_fi_weight, different for every contact and component.
f_weight == [c \in Contacts |-> [k \in Components |-> c + k]]
fi_weight == [c \in Contacts |-> [k \in Components |-> 2 * c + k + 1]]

\* s.f[i] - f_ref[i]: the deviation of the force of contact c.
ForceDiff(sol, c) == [k \in Components |-> sol[c] + k - 1]

\* l_ref: the weighted squared deviation, over the active contacts.
RECURSIVE WeightedSquares(_, _, _, _)
WeightedSquares(w, status, sol, c) ==
  IF c = MaxPointContacts THEN 0
  ELSE (IF c \in status
        THEN w[c][1] * ForceDiff(sol, c)[1] * ForceDiff(sol, c)[1]
               + w[c][2] * ForceDiff(sol, c)[2] * ForceDiff(sol, c)[2]
               + w[c][3] * ForceDiff(sol, c)[3] * ForceDiff(sol, c)[3]
        ELSE 0)
       + WeightedSquares(w, status, sol, c + 1)

\* evalStageCost: 0.5 * dt * l_ref; evalImpulseCost: 0.5 * l_ref.
EvalCost(w, status, sol, dt) ==
  RMul(Rat(dt, 2), RInt(WeightedSquares(w, status, sol, 0)))

RECURSIVE AddDerivativesByContact(_, _, _, _, _, _, _)
AddDerivativesByContact(lfv, w, status, sol, dt, c, dimf_stack) ==
  IF c = MaxPointContacts THEN lfv
  ELSE IF c \in status
       THEN AddDerivativesByContact(
              [j \in DOMAIN lfv |->
                 IF j - DimPerContact * c \in Components
                 THEN lfv[j] + dt * w[c][j - DimPerContact * c]
                                 * ForceDiff(sol, c)[j - DimPerContact * c]
                 ELSE lfv[j]],
              w, status, sol, dt, c + 1, dimf_stack + DimPerContact)
       ELSE AddDerivativesByContact(lfv, w, status, sol, dt, c + 1, dimf_stack)

\* eval...CostDerivatives: the loop over the contacts with the running
\* offset dimf_stack; lf.segment<3>(dimf_stack) += dt * w * (f - f_ref).
RECURSIVE AddDerivatives(_, _, _, _, _, _, _)
AddDerivatives(lfv, w, status, sol, dt, c, dimf_stack) ==
  IF c = MaxPointContacts THEN lfv
  ELSE IF c \in status
       THEN AddDerivatives(
              [j \in DOMAIN lfv |->
                 IF j - dimf_stack \in Components
                 THEN lfv[j] + dt * w[c][j - dimf_stack]
                                 * ForceDiff(sol, c)[j - dimf_stack]
                 ELSE lfv[j]],
              w, status, sol, dt, c + 1, dimf_stack + DimPerContact)
       ELSE AddDerivatives(lfv, w, status, sol, dt, c + 1, dimf_stack)

\* A derivative that puts the term of contact c at the place of contact c
\* among all contacts instead of among the active ones.
CostDerivativesByContact(lfv, w, status, sol, dt) ==
  AddDerivativesByContact(lfv, w, status, sol, dt, 0, 0)

CostDerivatives(lfv, w, status, sol, dt) ==
  AddDerivatives(lfv, w, status, sol, dt, 0, 0)

\* eval...CostHessian: Qff.diagonal().segment<3>(dimf_stack) += dt * w.
RECURSIVE AddHessian(_, _, _, _, _, _)
AddHessian(Q, w, status, dt, c, dimf_stack) ==
  IF c = MaxPointContacts THEN Q
  ELSE IF c \in status
       THEN AddHessian(
              [rc \in DOMAIN Q |->
                 IF rc[1] = rc[2] /\ rc[1] - dimf_stack \in Components
                 THEN Q[rc] + dt * w[c][rc[1] - dimf_stack]
                 ELSE Q[rc]],
              w, status, dt, c + 1, dimf_stack + DimPerContact)
       ELSE AddHessian(Q, w, status, dt, c + 1, dimf_stack)

CostHessian(Q, w, status, dt) == AddHessian(Q, w, status, dt, 0, 0)

\* Values lf().setRandom() and Qff().setRandom() may leave in the segment
\* of the active dimension: zero, or a value that differs from place to
\* place (and off the diagonal too).
RandomLf(dimf, seed) == [j \in 1..dimf |-> seed * j]
RandomQff(dimf, seed) ==
  [rc \in (1..dimf) \X (1..dimf) |-> seed * (rc[1] + 2 * rc[2])]

InitCost == InitKKT

CostLogged(op, dt) ==
  costLog' = [op |-> op, dt |-> dt, lf |-> lfVal, Qff |-> QffVal]

\* The set-up of one test: no value was returned by an evaluation yet.
\* contact_status.setRandom(); s.setRandom(robot, contact_status);
\* kkt_res.setContactStatus(contact_status);
\* kkt_mat.setContactStatus(contact_status); lf().setRandom();
\* Qff().setRandom().
CostSetRandom ==
  /\ pc = "mesh"
  /\ \E status \in ContactStatuses, seed \in 0..1 :
       /\ costStatus' = status
       /\ lfVal' = RandomLf(StatusDimf(status), seed)
       /\ QffVal' = RandomQff(StatusDimf(status), seed)
  /\ \E f0 \in {-1, 1} : costSol' = [c \in Contacts |-> f0 * (c + 1)]
  /\ costVal' = RInt(0)
  /\ costLog' = [op |-> "setRandom", dt |-> 0, lf |-> ZeroLf(0),
                 Qff |-> ZeroQff(0)]
  /\ UNCHANGED <<solverVars, meshVars, kktVars, ctorVars, unitVars, events>>

\* The evaluations run once on the data that was set, as in the test.
CostDataIsFresh == costLog.op \in {"none", "setRandom"}

\* evalStageCost, evalStageCostDerivatives, evalStageCostHessian.
EvalStageCost ==
  /\ pc = "mesh"
  /\ CostDataIsFresh
  /\ \E dt \in 1..MaxDt :
       /\ costVal' = EvalCost(f_weight, costStatus, costSol, dt)
       /\ lfVal' = CostDerivatives(lfVal, f_weight, costStatus, costSol, dt)
       /\ QffVal' = CostHessian(QffVal, f_weight, costStatus, dt)
       /\ CostLogged("stage", dt)
  /\ UNCHANGED <<solverVars, meshVars, kktVars, ctorVars, unitVars, events, costStatus,
                 costSol>>

\* evalTerminalCost, evalTerminalCostDerivatives, evalTerminalCostHessian.
EvalTerminalCost ==
  /\ pc = "mesh"
  /\ CostDataIsFresh
  /\ costVal' = RInt(0)
  /\ CostLogged("terminal", 0)
  /\ UNCHANGED <<solverVars, meshVars, kktVars, ctorVars, unitVars, events, costStatus,
                 costSol, lfVal, QffVal>>

\* evalImpulseCost, evalImpulseCostDerivatives, evalImpulseCostHessian: the
\* status is the impulse status, and there is no time step.
EvalImpulseCost ==
  /\ pc = "mesh"
  /\ CostDataIsFresh
  /\ costVal' = EvalCost(fi_weight, costStatus, costSol, 1)
  /\ lfVal' = CostDerivatives(lfVal, fi_weight, costStatus, costSol, 1)
  /\ QffVal' = CostHessian(QffVal, fi_weight, costStatus, 1)
  /\ CostLogged("impulse", 1)
  /\ UNCHANGED <<solverVars, meshVars, kktVars, ctorVars, unitVars, events, costStatus,
                 costSol>>

NextCost ==
  \/ CostSetRandom
  \/ EvalStageCost
  \/ EvalTerminalCost
  \/ EvalImpulseCost

SpecCost == InitCost /\ [][NextCost]_vars

\* ------------------------------------------------------ Raibert heuristic
\* Periods and gains are counted in halves, velocities in units, step
\* lengths in quarters.
GainOne == 2      \* the gain 1.0, in halves
MaxParam == 3     \* largest period and gain tried, in halves
MinParam == 0 - 1

RaibertParams == MinParam..MaxParam
Velocities == {<<0, 0>>, <<1, 0>>, <<1, 2>>}

\* The checks of a constructor that takes any gain above zero.
CtorAcceptsAnyPositiveGain(period, gain) == period > 0 /\ gain > 0

\* The checks of RaibertHeuristic(period, gain): none of them throws.
CtorAccepts(period, gain) ==
  /\ ~(period <= 0)
  /\ ~(gain <= 0)
  /\ ~(gain > GainOne)

\* The checks of setParameters(period, gain): none of them throws.
SetParametersAccepts(period, gain) ==
  /\ ~(period <= 0)
  /\ ~(gain <= 0)

RaibertObject(by, period, gain, step_length) ==
  [state |-> "constructed", by |-> by, period |-> period, gain |-> gain,
   step_length |-> step_length]

\* std::exit(EXIT_FAILURE) in the catch block: the process is gone.
RaibertExited(by, period, gain) ==
  [state |-> "exited", by |-> by, period |-> period, gain |-> gain]

InitRaibert == InitKKT

\* RaibertHeuristic(period, gain).
RaibertConstruct ==
  /\ rh.state # "exited"
  /\ \E period, gain \in RaibertParams :
       rh' = IF CtorAccepts(period, gain)
             THEN RaibertObject("constructor", period, gain, <<0, 0, 0>>)
             ELSE RaibertExited("constructor", period, gain)
  /\ UNCHANGED <<solverVars, meshVars, kktVars, ctorVars, costVars, events,
                 stoVars, bc, sc>>

\* RaibertHeuristic().
RaibertDefaultConstruct ==
  /\ rh.state # "exited"
  /\ rh' = RaibertObject("default", 0, 0, <<0, 0, 0>>)
  /\ UNCHANGED <<solverVars, meshVars, kktVars, ctorVars, costVars, events,
                 stoVars, bc, sc>>

\* setParameters(period, gain).
RaibertSetParameters ==
  /\ rh.state = "constructed"
  /\ \E period, gain \in RaibertParams :
       rh' = IF SetParametersAccepts(period, gain)
             THEN RaibertObject("setParameters", period, gain, rh.step_length)
             ELSE RaibertExited("setParameters", period, gain)
  /\ UNCHANGED <<solverVars, meshVars, kktVars, ctorVars, costVars, events,
                 stoVars, bc, sc>>

\* planStepLength(vcom, vcom_cmd, yaw_rate_cmd): the first two components
\* become period * vcom + period * gain * (vcom_cmd - vcom).
RaibertPlanStepLength ==
  /\ rh.state = "constructed"
  /\ \E vcom, vcom_cmd \in Velocities :
       rh' = [rh EXCEPT !.step_length =
                [j \in 1..3 |->
                   IF j <= 2
                   THEN 2 * rh.period * vcom[j]
                          + rh.period * rh.gain * (vcom_cmd[j] - vcom[j])
                   ELSE rh.step_length[j]]]
  /\ UNCHANGED <<solverVars, meshVars, kktVars, ctorVars, costVars, events,
                 stoVars, bc, sc>>

NextRaibert ==
  \/ RaibertConstruct
  \/ RaibertDefaultConstruct
  \/ RaibertSetParameters
  \/ RaibertPlanStepLength

SpecRaibert == InitRaibert /\ [][NextRaibert]_vars

\* -------------------------------------------------------------------- STO
MaxH == 1         \* largest Hamiltonian residual h of a stage
MaxCost == 1      \* largest value of the STO cost

\* eventType(event_index), for event indices from 0.
eventType(event_index) == disc[event_index + 1].type

\* The stages whose Hamiltonian residual STO::KKTError reads.
HStages ==
  {Stage(s) : s \in 0..(N - 1)} \cup {Aux(k) : k \in 0..(N_impulse - 1)}
    \cup {Lift(l) : l \in 0..(N_lift - 1)}

\* std::sqrt of a sum of squares of integers: the root where it is an
\* integer, the root as a term of its own where it is not.
Sqrt(x) ==
  IF \E r \in 0..x : r * r = x
  THEN CHOOSE r \in 0..x : r * r = x
  ELSE <<"sqrt", x>>

\* STO(sto_cost, sto_constraints, max_num_impulse_events).
NewSTO(max_num_impulse_events) ==
  [state |-> "constructed",
   max_num_impulse_events |-> max_num_impulse_events,
   kkt_error |-> 0, cost_val |-> 0,
   h_phase |-> [p \in 0..(2 * max_num_impulse_events) |-> 0],
   constraints |-> "none"]

\* STO().
DefaultSTO ==
  [state |-> "constructed", max_num_impulse_events |-> 0,
   kkt_error |-> 0, cost_val |-> 0, h_phase |-> <<>>, constraints |-> "none"]

\* The horizon has no more impulses and no more lifts than the object was
\* built for.
WithinCapacity ==
  /\ N_impulse <= sto.max_num_impulse_events
  /\ N_lift <= sto.max_num_impulse_events

\* The three loops that sum the Hamiltonian residuals by contact phase.
RECURSIVE AddStageH(_, _, _)
AddStageH(hp, h, stage) ==
  IF stage >= N THEN hp
  ELSE AddStageH([hp EXCEPT ![contactPhase(stage)] = @ + h[Stage(stage)]],
                 h, stage + 1)

RECURSIVE AddAuxH(_, _, _)
AddAuxH(hp, h, impulse_index) ==
  IF impulse_index >= N_impulse THEN hp
  ELSE AddAuxH([hp EXCEPT ![contactPhaseAfterImpulse(impulse_index)] =
                  @ + h[Aux(impulse_index)]],
               h, impulse_index + 1)

RECURSIVE AddLiftH(_, _, _)
AddLiftH(hp, h, lift_index) ==
  IF lift_index >= N_lift THEN hp
  ELSE AddLiftH([hp EXCEPT ![contactPhaseAfterLift(lift_index)] =
                   @ + h[Lift(lift_index)]],
                h, lift_index + 1)

\* h_phase_ after setZero() and the three loops.
HPhase(hp, h) ==
  AddLiftH(AddAuxH(AddStageH([p \in DOMAIN hp |-> 0], h, 0), h, 0), h, 0)

\* A loop over the events that counts an impulse or a lift only if its
\* switching time is optimized.
RECURSIVE SumHdiffCountingEnabled(_, _, _, _)
SumHdiffCountingEnabled(hp, event_index, impulse_index, lift_index) ==
  IF event_index >= N_impulse + N_lift THEN 0
  ELSE IF eventType(event_index) = "Impulse"
  THEN IF impulse_index < N_impulse /\ isSTOEnabledImpulse(impulse_index)
       THEN (hp[event_index] - hp[event_index + 1])
              * (hp[event_index] - hp[event_index + 1])
              + SumHdiffCountingEnabled(hp, event_index + 1,
                                        impulse_index + 1, lift_index)
       ELSE SumHdiffCountingEnabled(hp, event_index + 1, impulse_index,
                                    lift_index)
  ELSE IF lift_index < N_lift /\ isSTOEnabledLift(lift_index)
       THEN (hp[event_index] - hp[event_index + 1])
              * (hp[event_index] - hp[event_index + 1])
              + SumHdiffCountingEnabled(hp, event_index + 1, impulse_index,
                                        lift_index + 1)
       ELSE SumHdiffCountingEnabled(hp, event_index + 1, impulse_index,
                                    lift_index)

HdiffSquaresCountingEnabled(hp) == SumHdiffCountingEnabled(hp, 0, 0, 0)

\* The loop over the events, with the running impulse_index and lift_index.
RECURSIVE SumHdiff(_, _, _, _)
SumHdiff(hp, event_index, impulse_index, lift_index) ==
  IF event_index >= N_impulse + N_lift THEN 0
  ELSE IF eventType(event_index) = "Impulse"
  THEN (IF isSTOEnabledImpulse(impulse_index)
        THEN (hp[event_index] - hp[event_index + 1])
               * (hp[event_index] - hp[event_index + 1])
        ELSE 0)
       + SumHdiff(hp, event_index + 1, impulse_index + 1, lift_index)
  ELSE (IF isSTOEnabledLift(lift_index)
        THEN (hp[event_index] - hp[event_index + 1])
               * (hp[event_index] - hp[event_index + 1])
        ELSE 0)
       + SumHdiff(hp, event_index + 1, impulse_index, lift_index + 1)

\* kkt_error before the square root.
HdiffSquares(hp) == SumHdiff(hp, 0, 0, 0)

\* The indices of h_phase_ that STO::KKTError reads or writes.
HPhaseIndices ==
  {contactPhase(stage) : stage \in 0..(N - 1)}
    \cup {contactPhaseAfterImpulse(k) : k \in 0..(N_impulse - 1)}
    \cup {contactPhaseAfterLift(l) : l \in 0..(N_lift - 1)}
    \cup UNION {{e, e + 1} : e \in {x \in 0..(N_impulse + N_lift - 1) :
                                      isSTOEnabledEvent(x)}}

\* Directions of the switching times: of the aux and the lift stages.
StoDirections == {d \in Directions : \A st \in DOMAIN d : st[1] = "impulse" => d[st] = 0}

InitSTO ==
  /\ SideInit
  /\ ndebug = TRUE
  /\ stoEnabled \in BOOLEAN
  /\ events \in TractableSequences
  /\ SolverIdle

StoLogged(op, ret, indices) ==
  stoLog' = [op |-> op, ret |-> ret, indices |-> indices]

\* On an object with switching-time optimization one operation is followed
\* after the linearization, on an object without it any sequence.
StoOperationAllowed ==
  /\ pc = "mesh"
  /\ stoKkt # NoStoKkt
  /\ stoEnabled => (WithinCapacity /\ stoLog = NoStoLog)

\* The construction of the STO object, by the constructor that matches
\* is_sto_enabled_.
STOConstruct ==
  /\ sto = NoSTO
  /\ IF stoEnabled
     THEN \E m \in 0..MaxEvents : sto' = NewSTO(m)
     ELSE sto' = DefaultSTO
  /\ UNCHANGED <<solverVars, meshVars, kktVars, ctorVars, costVars, events,
                 stoKkt, stoLog, bc, rh, sc>>

\* ocp.discretize(contact_sequence, t) and the linearization of the stages:
\* the Hamiltonian residuals of the stages are inputs.
STOLinearize ==
  /\ pc = "mesh"
  /\ sto # NoSTO
  /\ stoKkt = NoStoKkt
  /\ disc' = events
  /\ \E h \in [HStages' -> 0..MaxH] :
       stoKkt' = [state |-> "linearized", h |-> h, residual |-> "stages",
                  matrix |-> "stages"]
  /\ UNCHANGED <<ndebug, pc, i, iter, reason, sver, linRead, backLog, fwdLog,
                 pending, dirWork, accesses, weak, maxPrimal, maxDual, nAll,
                 alphaP, alphaD, dts, stoEnabled, trace, ipVars, meshVars,
                 kktVars, ctorVars, costVars, events, sto, stoLog, bc, rh, sc>>

\* initConstraints(ocp).
STOInitConstraints ==
  /\ StoOperationAllowed
  /\ sto' = IF stoEnabled THEN [sto EXCEPT !.constraints = "slack set"]
            ELSE sto
  /\ StoLogged("initConstraints", 0, {})
  /\ UNCHANGED <<solverVars, meshVars, kktVars, ctorVars, costVars, events,
                 stoKkt, bc, rh, sc>>

\* computeKKTResidual(ocp, kkt_residual).
STOComputeKKTResidual ==
  /\ StoOperationAllowed
  /\ IF stoEnabled
     THEN /\ \E cost \in 0..MaxCost :
               sto' = [sto EXCEPT
                         !.cost_val = cost,
                         !.constraints = "linearized",
                         !.h_phase = HPhase(sto.h_phase, stoKkt.h),
                         !.kkt_error =
                           Sqrt(HdiffSquares(HPhase(sto.h_phase, stoKkt.h)))]
          /\ stoKkt' = [stoKkt EXCEPT !.residual = "stages and STO"]
          /\ StoLogged("computeKKTResidual", 0, HPhaseIndices)
     ELSE /\ UNCHANGED <<sto, stoKkt>>
          /\ StoLogged("computeKKTResidual", 0, {})
  /\ UNCHANGED <<solverVars, meshVars, kktVars, ctorVars, costVars, events,
                 bc, rh, sc>>

\* computeKKTSystem(ocp, kkt_matrix, kkt_residual).
STOComputeKKTSystem ==
  /\ StoOperationAllowed
  /\ IF stoEnabled
     THEN /\ \E cost \in 0..MaxCost :
               sto' = [sto EXCEPT
                         !.cost_val = cost,
                         !.constraints = "condensed",
                         !.h_phase = HPhase(sto.h_phase, stoKkt.h),
                         !.kkt_error =
                           Sqrt(HdiffSquares(HPhase(sto.h_phase, stoKkt.h)))]
          /\ stoKkt' = [stoKkt EXCEPT !.residual = "stages and STO",
                                       !.matrix = "stages and STO"]
          /\ StoLogged("computeKKTSystem", 0, HPhaseIndices)
     ELSE /\ UNCHANGED <<sto, stoKkt>>
          /\ StoLogged("computeKKTSystem", 0, {})
  /\ UNCHANGED <<solverVars, meshVars, kktVars, ctorVars, costVars, events,
                 bc, rh, sc>>

\* KKTError(ocp, kkt_residual), on an object built with its buffer.
STOKKTError ==
  /\ StoOperationAllowed
  /\ stoEnabled
  /\ sto' = [sto EXCEPT !.h_phase = HPhase(sto.h_phase, stoKkt.h)]
  /\ StoLogged("KKTError", Sqrt(HdiffSquares(HPhase(sto.h_phase, stoKkt.h))),
               HPhaseIndices)
  /\ UNCHANGED <<solverVars, meshVars, kktVars, ctorVars, costVars, events,
                 stoKkt, bc, rh, sc>>

\* integrateSolution(ocp, contact_sequence, primal_step_size,
\* dual_step_size, d), with the full step.
STOIntegrateSolution ==
  /\ StoOperationAllowed
  /\ \E d \in StoDirections : events' = IntegrateSolution(events, AlphaOne, d)
  /\ sto' = IF stoEnabled THEN [sto EXCEPT !.constraints = "updated"]
            ELSE sto
  /\ StoLogged("integrateSolution", 0, {})
  /\ UNCHANGED <<solverVars, meshVars, kktVars, ctorVars, costVars, stoKkt,
                 bc, rh, sc>>

NextSTO ==
  \/ STOConstruct
  \/ STOLinearize
  \/ STOInitConstraints
  \/ STOComputeKKTResidual
  \/ STOComputeKKTSystem
  \/ STOKKTError
  \/ STOIntegrateSolution

SpecSTO == InitSTO /\ [][NextSTO]_vars

\* ---------------------------------------------------- switching constraint
\* The reference computation of test/ocp/switching_constraint_test.cpp on a
\* fixed-base robot with one joint whose contact frames move on straight
\* lines: the position of frame c is FrameOffset(c) + q * FrameJacobian(c).
MaxState == 1     \* largest |q|, |v| and |a| of the split solution

SplitSolutions ==
  [q : (0 - MaxState)..MaxState, v : (0 - MaxState)..MaxState,
   a : (0 - MaxState)..MaxState]

\* The impulse statuses with an active impulse.
ActiveImpulseStatuses == ContactStatuses \ {{}}

FrameJacobian(c) == <<c + 1, 1, 0>>
FrameOffset(c) == <<0, c, 1>>
ContactPoint(c) == <<c, 0, 0>>

\* The active contacts in the order of their indices.
RECURSIVE ActiveInOrder(_, _)
ActiveInOrder(status, c) ==
  IF c >= MaxPointContacts THEN <<>>
  ELSE (IF c \in status THEN <<c>> ELSE <<>>) \o ActiveInOrder(status, c + 1)

\* robot.integrateConfiguration(q, dq, 1.0, q_out) of a fixed base.
IntegrateConfiguration(q, dq) == q + dq

\* robot.computeContactPositionResidual(impulse_status, P) at the
\* configuration q: frame position minus contact point, stacked over the
\* active contacts.
ContactPositionResidual(status, q) ==
  LET act == ActiveInOrder(status, 0) IN
    [j \in 1..StatusDimf(status) |->
       LET c == act[((j - 1) \div DimPerContact) + 1]
           k == ((j - 1) % DimPerContact) + 1
       IN FrameOffset(c)[k] + q * FrameJacobian(c)[k] - ContactPoint(c)[k]]

\* robot.computeContactPositionDerivative(impulse_status, Pq).
ContactPositionDerivative(status, q) ==
  LET act == ActiveInOrder(status, 0) IN
    [j \in 1..StatusDimf(status) |->
       FrameJacobian(act[((j - 1) \div DimPerContact) + 1])[
         ((j - 1) % DimPerContact) + 1]]

\* An evaluation at the configuration of the split solution itself.
EvalSwitchingConstraintAtQ(status, dt1, dt2, s) ==
  [P |-> ContactPositionResidual(status, s.q)]

\* The reference of evalSwitchingConstraint.
EvalSwitchingConstraint(status, dt1, dt2, s) ==
  LET dq == (dt1 + dt2) * s.v + (dt1 * dt2) * s.a
      q == IntegrateConfiguration(s.q, dq)
  IN [P |-> ContactPositionResidual(status, q)]

\* The reference of linearizeSwitchingConstraint, fixed base.
LinearizeSwitchingConstraint(status, dt1, dt2, s) ==
  LET dq == (dt1 + dt2) * s.v + (dt1 * dt2) * s.a
      q == IntegrateConfiguration(s.q, dq)
      Pq == ContactPositionDerivative(status, q)
  IN [P |-> ContactPositionResidual(status, q),
      Pq |-> Pq,
      Phiq |-> Pq,
      Phiv |-> [j \in DOMAIN Pq |-> (dt1 + dt2) * Pq[j]],
      Phia |-> [j \in DOMAIN Pq |-> (dt1 * dt2) * Pq[j]]]

\* res.P().squaredNorm() and res.P().lpNorm<1>().
RECURSIVE squaredNorm(_)
squaredNorm(P) ==
  IF P = <<>> THEN 0 ELSE P[1] * P[1] + squaredNorm(Tail(P))

RECURSIVE lpNorm1(_)
lpNorm1(P) ==
  IF P = <<>> THEN 0
  ELSE (IF P[1] < 0 THEN 0 - P[1] ELSE P[1]) + lpNorm1(Tail(P))

InitSwitchingConstraint == InitKKT

\* One run of the two tests on the same status, solution and intervals.
SwitchingConstraintTest ==
  /\ sc = NoCall
  /\ \E status \in ActiveImpulseStatuses, s \in SplitSolutions,
        dt1, dt2 \in 1..MaxDt :
       sc' = [op |-> "switching", status |-> status, s |-> s, dt1 |-> dt1,
              dt2 |-> dt2,
              eval |-> EvalSwitchingConstraint(status, dt1, dt2, s),
              lin |-> LinearizeSwitchingConstraint(status, dt1, dt2, s),
              KKTError |->
                squaredNorm(EvalSwitchingConstraint(status, dt1, dt2, s).P),
              constraintViolation |->
                lpNorm1(EvalSwitchingConstraint(status, dt1, dt2, s).P)]
  /\ UNCHANGED <<solverVars, meshVars, kktVars, ctorVars, costVars, events,
                 stoVars, bc, rh>>

NextSwitchingConstraint == SwitchingConstraintTest

SpecSwitchingConstraint ==
  InitSwitchingConstraint /\ [][NextSwitchingConstraint]_vars

\* ----------------------------------------- predecessors of a time stage
\* BackwardCorrection::q_prev and v_prev on a ParNMPCDiscretizer.  The
\* discretizer is what it answers for every time stage: the index of the
\* impulse and of the lift just before the stage, NoIndex if there is none.
NoIndex == 0 - 1

EventIndices == NoIndex..(MaxEvents - 1)
ParNMPCDiscretizers ==
  [0..(N - 1) -> [impulse : EventIndices, lift : EventIndices]]

\* A q_prev that has no case for the first time stage.
q_prevNoInitial(discretizer, time_stage) ==
  IF discretizer[time_stage].impulse # NoIndex
  THEN <<"impulse", discretizer[time_stage].impulse, "q">>
  ELSE IF discretizer[time_stage].lift # NoIndex
  THEN <<"lift", discretizer[time_stage].lift, "q">>
  ELSE <<"stage", time_stage - 1, "q">>

\* q_prev: the configuration that precedes the one of time_stage.
q_prev(discretizer, time_stage) ==
  IF discretizer[time_stage].impulse # NoIndex
  THEN <<"impulse", discretizer[time_stage].impulse, "q">>
  ELSE IF discretizer[time_stage].lift # NoIndex
  THEN <<"lift", discretizer[time_stage].lift, "q">>
  ELSE IF time_stage > 0
  THEN <<"stage", time_stage - 1, "q">>
  ELSE <<"initial", 0, "q">>

\* v_prev: the velocity that precedes the one of time_stage.
v_prev(discretizer, time_stage) ==
  IF discretizer[time_stage].impulse # NoIndex
  THEN <<"impulse", discretizer[time_stage].impulse, "v">>
  ELSE IF discretizer[time_stage].lift # NoIndex
  THEN <<"lift", discretizer[time_stage].lift, "v">>
  ELSE IF time_stage > 0
  THEN <<"stage", time_stage - 1, "v">>
  ELSE <<"initial", 0, "v">>

InitBackwardCorrection == InitKKT

\* q_prev and v_prev for one time stage of a discretization; the assertions
\* 0 <= time_stage < N() hold for the stages of the horizon.  The functions
\* are static and keep nothing: one call is followed.
PrevOfTimeStage ==
  /\ bc = NoCall
  /\ \E discretizer \in ParNMPCDiscretizers, time_stage \in 0..(N - 1) :
       bc' = [op |-> "prev", discretizer |-> discretizer,
              time_stage |-> time_stage,
              q |-> q_prev(discretizer, time_stage),
              v |-> v_prev(discretizer, time_stage)]
  /\ UNCHANGED <<solverVars, meshVars, kktVars, ctorVars, costVars, events,
                 stoVars, rh, sc>>

NextBackwardCorrection == PrevOfTimeStage

SpecBackwardCorrection ==
  InitBackwardCorrection /\ [][NextBackwardCorrection]_vars

\* -------------------------------------------------------------- properties
\* Positions of the calls of a sweep log that write the slot st.
Writes(log, st) == {n \in 1..Len(log) : log[n].dst = st}

\* The stage that follows st on the horizon: an impulse in interval s puts
\* impulse and aux between stages s and s + 1, a lift in interval s puts
\* the lift stage between them.
NextOnHorizon(st) ==
  IF st[1] = "stage" THEN
    IF isTimeStageBeforeImpulse(st[2])
    THEN Impulse(impulseIndexAfterTimeStage(st[2]))
    ELSE IF isTimeStageBeforeLift(st[2])
    THEN Lift(liftIndexAfterTimeStage(st[2]))
    ELSE Stage(st[2] + 1)
  ELSE IF st[1] = "impulse" THEN Aux(st[2])
  ELSE IF st[1] = "aux" THEN Stage(timeStageBeforeImpulse(st[2]) + 1)
  ELSE Stage(timeStageBeforeLift(st[2]) + 1)

\* C1: on a tractable discretization the finished backward sweep has
\* started from the terminal stage N and has written the factorization of
\* every stage of the horizon exactly once, each from the factorization,
\* written earlier in the sweep, of the stage that follows it on the
\* horizon.
C1_BackwardChainOnce ==
  (pc = "forward_init" /\ isFormulationTractable) =>
    /\ backLog[1] = Call(<<"kkt", N>>, Stage(N), NoSwitching)
    /\ \A st \in AllStages : Cardinality(Writes(backLog, st)) = 1
    /\ \A n \in 2..Len(backLog) :
         /\ backLog[n].src = NextOnHorizon(backLog[n].dst)
         /\ \E m \in 1..(n - 1) : backLog[m].dst = backLog[n].src

\* The case of C1 that fails: a build without assertions has swept backward
\* over a tractable discretization with impulses in adjacent intervals.
C1_AdjacentImpulsesSwept ==
  /\ pc = "forward_init"
  /\ isFormulationTractable
  /\ \E s \in 0..(N - 1) : isTimeStageBeforeImpulse(s) /\ ~SweepAssert(s)

\* C2: on a tractable discretization the finished forward sweep has written
\* the direction of every stage other than stage 0 exactly once, each from
\* the direction, written earlier in the sweep, of the stage before it on
\* the horizon, and it has followed the chain of the backward sweep in
\* reverse.
C2_ForwardChainOnce ==
  (pc = "direction_fork" /\ isFormulationTractable /\ fwdLog # <<>>) =>
    /\ fwdLog[1] = Call(<<"x0">>, Stage(0), NoSwitching)
    /\ \A st \in AllStages : Cardinality(Writes(fwdLog, st)) = 1
    /\ \A n \in 2..Len(fwdLog) :
         /\ fwdLog[n].dst = NextOnHorizon(fwdLog[n].src)
         /\ \E m \in 1..(n - 1) : fwdLog[m].dst = fwdLog[n].src
    /\ {<<fwdLog[n].dst, fwdLog[n].src>> : n \in 2..Len(fwdLog)}
         = {<<backLog[n].src, backLog[n].dst>> : n \in 2..Len(backLog)}

\* The case of C2 that fails: a build without assertions has swept forward
\* over a tractable discretization with a lift and an impulse in adjacent
\* intervals.
C2_LiftThenImpulseSwept ==
  /\ pc = "direction_fork"
  /\ fwdLog # <<>>
  /\ isFormulationTractable
  /\ \E s \in 0..(N - 1) : isTimeStageBeforeLift(s) /\ ~SweepAssert(s)

\* Calls of the finished backward sweep that take in the switching
\* constraint of impulse k, and iterations of computeDirection that compute
\* its multiplier direction.
SwitchingCalls(k) == {n \in 1..Len(backLog) : backLog[n].sw = k}
SwitchingUnits(k) == {u \in dirWork : u.sw = k}

\* C3 as stated: the switching constraint of an impulse inside interval s
\* is factorized together with stage s, and its multiplier direction is
\* computed on the direction of stage s.
C3_SwitchingOnStageOfInterval ==
  \A k \in 0..(N_impulse - 1) :
    /\ pc = "forward_init" =>
         \A n \in SwitchingCalls(k) :
           backLog[n].dst = Stage(timeStageBeforeImpulse(k))
    /\ pc = "linesearch" =>
         \A u \in SwitchingUnits(k) :
           u.slot = Stage(timeStageBeforeImpulse(k))

\* C3, amended: the switching constraint of an impulse inside interval s is
\* factorized together with stage s - 1, in the one call that reads the
\* factorization of stage s and writes that of stage s - 1, and with no
\* stage when s = 0; its multiplier direction is computed on the direction
\* of stage s - 1, once, and only when stage s - 1 exists and is not itself
\* just before an impulse or a lift.
C3_SwitchingOnStageBefore ==
  \A k \in 0..(N_impulse - 1) :
    LET s == timeStageBeforeImpulse(k) IN
      /\ pc = "forward_init" =>
           /\ Cardinality(SwitchingCalls(k)) = IF s >= 1 THEN 1 ELSE 0
           /\ \A n \in SwitchingCalls(k) :
                backLog[n].dst = Stage(s - 1) /\ backLog[n].src = Stage(s)
      /\ pc = "linesearch" =>
           /\ Cardinality(SwitchingUnits(k))
                = IF /\ s >= 1
                     /\ ~isTimeStageBeforeImpulse(s - 1)
                     /\ ~isTimeStageBeforeLift(s - 1)
                  THEN 1 ELSE 0
           /\ \A u \in SwitchingUnits(k) : u.slot = Stage(s - 1)

\* C3's case: both sweeps and computeDirection have run over an impulse
\* inside interval 1 or later, whose switching constraint was factorized
\* and whose multiplier direction was computed.
C3_SwitchingImposed ==
  /\ pc = "linesearch"
  /\ \E k \in 0..(N_impulse - 1) :
       /\ timeStageBeforeImpulse(k) >= 1
       /\ SwitchingCalls(k) # {}
       /\ SwitchingUnits(k) # {}

\* Iterations of computeDirection that wrote the location loc.
Writers(loc) == {a.idx : a \in {b \in accesses : b.loc = loc /\ b.mode = "w"}}

\* C4: computeDirection dispatches N + 1 + 2*N_impulse + N_lift iterations;
\* at its end every stage of the horizon has been worked on by exactly one
\* iteration, which wrote its direction, its worker and one entry of each
\* step-size buffer that no other iteration wrote.
C4_OneIterationPerStage ==
  /\ pc = "direction" =>
       Cardinality(pending) + Cardinality(dirWork)
         = N + 1 + 2 * N_impulse + N_lift
  /\ pc = "linesearch" =>
       /\ Cardinality(dirWork) = N + 1 + 2 * N_impulse + N_lift
       /\ \A u \in dirWork : u.slot \in AllStages
       /\ \A st \in AllStages :
            /\ Cardinality({u \in dirWork : u.slot = st}) = 1
            /\ Cardinality(Writers(<<"d", st>>)) = 1
            /\ Cardinality(Writers(<<"ocp", st>>)) = 1
       /\ \A u, w \in dirWork :
            u # w => u.primal # w.primal /\ u.dual # w.dual

\* C4's case: computeDirection has finished on a horizon with an impulse
\* and a lift.
C4_AllKindsOfStagesDone ==
  pc = "linesearch" /\ N_impulse >= 1 /\ N_lift >= 1 /\ dirWork # {}

\* C5: whatever the order of the iterations of computeDirection, no two of
\* them access the same location unless both only read it, and at the end
\* the work done and the step-size entries are those of the loop run in
\* index order.
C5_NoConflictAnySchedule ==
  /\ \A a, b \in accesses :
       (a.idx # b.idx /\ a.loc = b.loc) => (a.mode = "r" /\ b.mode = "r")
  /\ pc = "linesearch" =>
       /\ dirWork = {DirUnit(idx) : idx \in 0..(N_all - 1)}
       /\ \A idx \in 0..(N_all - 1) :
            /\ maxPrimal[idx] = StagePrimalStep(DirSlot(idx))
            /\ maxDual[idx] = StageDualStep(DirSlot(idx))

\* C5's case: the iterations ran out of index order (the last index was
\* done while index 0 was pending) on a horizon with an event, and the
\* step size of one stage was bound by its constraints.
C5_RanOutOfOrder ==
  /\ pc = "direction"
  /\ 0 \in pending
  /\ N_all > N + 1
  /\ \E u \in dirWork : u.idx = N_all - 1
  /\ weak # None

\* The phases of one Newton iteration, in order.
PhaseOrder ==
  <<"linearize", "backward", "forward", "direction", "linesearch", "apply">>

IsPrefix(a, b) == Len(a) <= Len(b) /\ \A n \in 1..Len(a) : a[n] = b[n]

PhasesDone(n) == trace = SubSeq(PhaseOrder, 1, n)

\* C6: in every Newton iteration the phases end in the order linearize,
\* backward, forward, computeDirection, line search, apply; each starts
\* only when the one before has finished on all stages; and every work
\* unit of linearize reads the solution written by the last apply.
C6_PhasesInOrder ==
  /\ IsPrefix(trace, PhaseOrder)
  /\ pc \in {"backward_init", "backward"} =>
       /\ PhasesDone(1)
       /\ pending = {}
       /\ {r[1] : r \in linRead} = 0..(N_all - 1)
  /\ pc \in {"forward_init", "forward"} =>
       /\ PhasesDone(2)
       /\ \A st \in AllStages : Writes(backLog, st) # {}
  /\ pc \in {"direction_fork", "direction"} =>
       /\ PhasesDone(3)
       /\ \A st \in AllStages : Writes(fwdLog, st) # {}
  /\ pc = "linesearch" =>
       /\ PhasesDone(4)
       /\ pending = {}
       /\ {u.idx : u \in dirWork} = 0..(N_all - 1)
  /\ pc = "apply" => PhasesDone(5)
  /\ pc \in {"linearize", "backward_init", "backward", "forward_init",
             "forward", "direction_fork", "direction", "linesearch", "apply"} =>
       /\ sver = iter
       /\ \A r \in linRead : r[2] = sver

\* C6's case: linearize of the second iteration has read the solution that
\* the apply of the first iteration wrote.
C6_SecondIterationReads ==
  pc = "backward_init" /\ iter = 1 /\ \E r \in linRead : r[2] = 1

MinOf(S) == CHOOSE m \in S : \A x \in S : m <= x

\* C9: after a call of computeDirection maxPrimalStepSize() and
\* maxDualStepSize() are the minimum of the step sizes of the stages of
\* that call's horizon, whatever the entries beyond them hold.
C9_MinOverStagesOfThisCall ==
  pc = "linesearch" =>
    /\ maxPrimalStepSize = MinOf({StagePrimalStep(st) : st \in AllStages})
    /\ maxDualStepSize = MinOf({StageDualStep(st) : st \in AllStages})
    /\ \A st \in AllStages : maxPrimalStepSize <= StagePrimalStep(st)
    /\ \A st \in AllStages : maxDualStepSize <= StageDualStep(st)

\* C9's case: the second call ran on a horizon with fewer events, and an
\* entry left by the first call beyond the head is smaller than the result.
C9_StaleEntrySmaller ==
  /\ pc = "linesearch"
  /\ iter = 1
  /\ \E j \in nAll..(StepBufLen - 1) :
       /\ maxPrimal[j] = AlphaOne - 1
       /\ maxPrimal[j] < maxPrimalStepSize
       /\ maxDual[j] < maxDualStepSize

\* The step has just been applied.
JustApplied == trace # <<>> /\ trace[Len(trace)] = "apply"

\* C10: integrateSolution with STO enabled moves every STO-enabled impulse
\* k by alpha * d.aux[k].dts and every STO-enabled lift l by
\* alpha * d.lift[l].dts, and leaves every other event, and the kind and
\* flag of every event, as they were.
C10_SwitchingTimesIntegrated ==
  (JustApplied /\ stoEnabled) =>
    /\ Len(events) = Len(disc)
    /\ \A e \in 1..Len(disc) :
         events[e].type = disc[e].type /\ events[e].sto = disc[e].sto
    /\ \A k \in 0..(N_impulse - 1) :
         events[eventOfImpulse(k)].t
           = disc[eventOfImpulse(k)].t
               + (IF isSTOEnabledImpulse(k) THEN alphaP * dts[Aux(k)] ELSE 0)
    /\ \A l \in 0..(N_lift - 1) :
         events[eventOfLift(l)].t
           = disc[eventOfLift(l)].t
               + (IF isSTOEnabledLift(l) THEN alphaP * dts[Lift(l)] ELSE 0)

\* C10's case: a step was applied with STO enabled to a sequence with an
\* STO-enabled impulse that moved, and with an event whose flag is off and
\* whose direction is not zero.
C10_ImpulseMoved ==
  /\ JustApplied
  /\ stoEnabled
  /\ \E k \in 0..(N_impulse - 1) :
       /\ isSTOEnabledImpulse(k)
       /\ dts[Aux(k)] # 0
       /\ dts[Impulse(k)] # dts[Aux(k)]
       /\ events[eventOfImpulse(k)].t # disc[eventOfImpulse(k)].t
  /\ \E l \in 0..(N_lift - 1) : ~isSTOEnabledLift(l) /\ dts[Lift(l)] # 0

\* C8: after initConstraints and after every applied step, every element
\* of the slack and of the dual of every constraint component is strictly
\* positive, for a fraction-to-boundary parameter strictly between 0 and 1.
C8_SlackAndDualPositive ==
  (pc \in {"ip_expand", "ip_update"} /\ RPos(tau) /\ RLess(tau, RInt(1))) =>
    \A c \in Comps : RPos(slack[c]) /\ RPos(dual[c])

\* C8's case: two steps have been applied, the last one cut by the
\* fraction-to-boundary rule in the slack and in the dual, and a
\* constraint is violated (g > 0) at the solution.
C8_StepsCutByBoundary ==
  /\ pc = "ip_expand"
  /\ iter = 2
  /\ RLess(ipAlpha[1], RInt(1))
  /\ RLess(ipAlpha[2], RInt(1))
  /\ \E c \in Comps : RPos(gcon[c])

\* C11: after any sequence of switching-time updates by integrateSolution
\* the event times of the contact sequence are strictly increasing and
\* strictly inside the horizon.
C11_EventsStayOrdered == EventsInOrder(events)

\* The case of C11 that fails: a step has been applied with STO enabled to
\* an ordered sequence and has left two events out of order.
C11_EventsSwapped ==
  /\ JustApplied
  /\ stoEnabled
  /\ EventsInOrder(disc)
  /\ \E e \in 1..(Len(events) - 1) : events[e].t > events[e + 1].t

\* C12: the event times change only in the apply step of the driver, with
\* no parallel section running; the discretization changes only in
\* discretize; and the iterations of computeDirection only read the
\* contact sequence and the discretization.
C12_OnlyApplyMovesEvents ==
  /\ [][/\ events' # events => (pc = "apply" /\ pc' # "apply" /\ pending = {})
        /\ disc' # disc => pc = "discretize"]_vars
  /\ [](\A a \in accesses :
          a.loc \in {<<"contact_sequence">>, <<"discrete">>} => a.mode = "r")

\* C12's case: both sweeps and computeDirection have run, and the apply
\* step after them has moved an event.
C12_EventMovedByApply ==
  /\ JustApplied
  /\ events # disc
  /\ \E a \in accesses : a.loc = <<"contact_sequence">>
  /\ backLog # <<>> /\ fwdLog # <<>>

\* Times of the grid points of the horizon.
GridTimes == {k * Dt : k \in 0..N}

\* Some time step around an event of es is not above eps: an event lies
\* within eps of a grid point or of another event.
StepNotAboveEps(es) ==
  \/ \E e \in 1..Len(es) : \E g \in GridTimes : Dist(es[e].t, g) <= Eps
  \/ \E e, f \in 1..Len(es) : e # f /\ Dist(es[e].t, es[f].t) <= Eps

Discretized == pc \notin {"solve", "discretize"}

\* Every event of disc lies strictly between two consecutive grid points.
EventsInsideIntervals ==
  \A e \in 1..Len(disc) :
    \E s \in 0..(N - 1) : s * Dt < disc[e].t /\ disc[e].t < (s + 1) * Dt

\* Number of events that time stage s is the stage before.
EventsAfterStage(s) ==
  Cardinality({k \in 0..(N_impulse - 1) : timeStageBeforeImpulse(k) = s})
    + Cardinality({k \in 0..(N_lift - 1) : timeStageBeforeLift(k) = s})

\* No time stage is both just before an impulse and just before a lift, and
\* each stage precedes at most one event.
OneEventPerStage ==
  \A s \in 0..(N - 1) :
    /\ ~(isTimeStageBeforeImpulse(s) /\ isTimeStageBeforeLift(s))
    /\ EventsAfterStage(s) <= 1

\* No two events of es fall between the same two grid points.
OneEventPerInterval(es) ==
  \A e, f \in 1..Len(es) : e # f => GridOf(es[e].t) # GridOf(es[f].t)

C16_GridBasedChanged ==
  /\ meshLog.op = "discretize" /\ meshLog.method = "GridBased"
  /\ Len(nphase) = Len(meshLog.before)
  /\ nphase # meshLog.before

TooClose(es) ==
  \/ \E e \in 1..(Len(es) - 1) : Dist(es[e].t, es[e + 1].t) < Eps
  \/ \E e \in 1..Len(es) : \E g \in GridTimes : Dist(es[e].t, g) < Eps

\* C18: on a discretization in which two consecutive events are closer than
\* eps, or an event is closer than eps to a grid point, the solve has ended
\* with the exit reason "bad_discretization", and no phase of a Newton
\* iteration (linearize, the sweeps, computeDirection) has run on it.
C18_CollapsedEventsRefused ==
  (Discretized /\ TooClose(disc)) =>
    /\ pc = "exit"
    /\ reason = "bad_discretization"
    /\ trace = <<>>
    /\ pending = {}

\* C18's case: a switching-time update has put two events on the same
\* time, and the solve has ended on the discretization that followed.
C18_CollidedAfterUpdate ==
  /\ pc = "exit"
  /\ iter >= 1
  /\ \E e \in 1..(Len(disc) - 1) : disc[e].t = disc[e + 1].t

\* C19: after any sequence of setContactStatus calls on a SplitKKTResidual
\* and a SplitKKTMatrix, dimf is 3 times the number of active point
\* contacts of the last status, lf, Qff, Qqf and hf have that size,
\* isDimensionConsistent holds, and the storage has the size it got at
\* construction, the one for all contacts active.
C19_AccessorsFollowStatus ==
  /\ kktResidual.dimf = 3 * Cardinality(kktResidual.status)
  /\ kktMatrix.dimf = 3 * Cardinality(kktMatrix.status)
  /\ lf(kktResidual) = kktResidual.dimf
  /\ Qff(kktMatrix) = <<kktMatrix.dimf, kktMatrix.dimf>>
  /\ Qqf_cols(kktMatrix) = kktMatrix.dimf
  /\ hf(kktMatrix) = kktMatrix.dimf
  /\ ResidualIsDimensionConsistent(kktResidual)
  /\ MatrixIsDimensionConsistent(kktMatrix)
  /\ kktResidual.lf_full = NewKKTResidual.lf_full
  /\ kktMatrix.Qff_full = NewKKTMatrix.Qff_full
  /\ kktMatrix.Qqf_full_cols = NewKKTMatrix.Qqf_full_cols
  /\ kktMatrix.hf_full = NewKKTMatrix.hf_full
  /\ kktResidual.lf_full = 3 * MaxPointContacts

\* C19's case: the residual has been set to all contacts active and the
\* matrix to one active contact, each to another status than the one it
\* was constructed with.
C19_StatusesSet ==
  /\ Cardinality(kktResidual.status) = MaxPointContacts
  /\ Cardinality(kktMatrix.status) = 1
  /\ lf(kktResidual) = 3 * MaxPointContacts
  /\ hf(kktMatrix) = 3

\* C20: a construction of a RiccatiRecursion with N <= 0,
\* max_num_impulse < 0 or nthreads <= 0 ends in a reported failure (the
\* constructor's message and exit, an exception, or an assertion) and never
\* in a constructed object, so that every recursion operation runs on an
\* object built from valid arguments; with arguments that reach the
\* constructor's own checks the failure is the message and the exit.
C20_InvalidArgumentsRefused ==
  /\ (rrState # "none"
        /\ (rrArgs.N <= 0 \/ rrArgs.max_num_impulse < 0
              \/ rrArgs.nthreads <= 0))
       => rrState \in {"exit_failure", "exception", "abort"}
  /\ (rrState = "constructed" \/ rrOps > 0)
       => (rrArgs.N > 0 /\ rrArgs.max_num_impulse >= 0
             /\ rrArgs.nthreads > 0)
  /\ (rrState # "none" /\ rrArgs.N >= 0 /\ rrArgs.max_num_impulse >= 0
        /\ (rrArgs.N = 0 \/ rrArgs.nthreads <= 0))
       => rrState = "exit_failure"

\* C20's case: a construction with a valid horizon and no threads has been
\* refused by the constructor's own check.
C20_ZeroThreadsRefused ==
  /\ rrState = "exit_failure"
  /\ rrArgs.N > 0 /\ rrArgs.max_num_impulse >= 0 /\ rrArgs.nthreads = 0
  /\ rrOps = 0

\* A construction without NDEBUG has been ended by an Eigen assertion on a
\* negative buffer length.
C20_AbortedInInitializer ==
  rrState = "abort" /\ rrArgs.N + 1 + 3 * rrArgs.max_num_impulse < 0

\* C25: whenever isFormulationTractable holds for the current
\* discretization, the assertions of the sweeps hold at every time stage:
\* a stage that is just before an impulse or a lift is not followed by a
\* stage that is just before an impulse.
C25_TractableImpliesAssertions ==
  (Discretized /\ isFormulationTractable) =>
    \A s \in 0..(N - 1) : SweepAssert(s)

\* The case of C25 that fails: the backward sweep stands at a stage of a
\* tractable discretization at which its assertion does not hold.
C25_AssertionBrokenInSweep ==
  /\ pc = "backward"
  /\ isFormulationTractable
  /\ ~SweepAssert(i)

\* C21: no operation of the solver loop aborts or exits the process; every
\* failure ends the solve with an exit reason.
C21_NeverAborts == pc # "aborted"

\* The case of C21 that fails: a sweep has aborted on a failed assertion,
\* on a discretization that isFormulationTractable accepts.
C21_AbortedOnTractable ==
  /\ pc = "aborted"
  /\ ~ndebug
  /\ isFormulationTractable
  /\ reason = "none"

\* The contact that is the k-th active one (k from 0) of a contact status.
NthActive(status, k) ==
  CHOOSE c \in status : Cardinality({d \in status : d < c}) = k

\* The contact and the component that place j of the stack of the active
\* contacts belongs to.
StackContact(status, j) == NthActive(status, (j - 1) \div DimPerContact)
StackComponent(j) == ((j - 1) % DimPerContact) + 1

\* The weights and the time step factor of the evaluation that was logged.
LoggedWeight(c) == IF costLog.op = "stage" THEN f_weight[c] ELSE fi_weight[c]

\* C22: an inactive contact contributes nothing to the contact force cost:
\* with no active contact the stage cost and the impulse cost are 0 and lf and
\* Qff stay zero; the terminal cost is 0 for every status and leaves lf and Qff
\* as they were; for the active contacts the derivative and Hessian terms are
\* added to the stored values, stacked in the order of the active contacts.
C22_InactiveContactsContributeNothing ==
  /\ (costLog.op \in {"stage", "impulse"} /\ costStatus = {}) =>
       /\ costVal = RInt(0)
       /\ lfVal = ZeroLf(0)
       /\ QffVal = ZeroQff(0)
  /\ (costLog.op = "terminal") =>
       /\ costVal = RInt(0)
       /\ lfVal = costLog.lf
       /\ QffVal = costLog.Qff
  /\ (costLog.op \in {"stage", "impulse"}) =>
       /\ DOMAIN lfVal = 1..StatusDimf(costStatus)
       /\ \A j \in DOMAIN lfVal :
            lfVal[j] = costLog.lf[j]
              + costLog.dt
                  * LoggedWeight(StackContact(costStatus, j))[StackComponent(j)]
                  * ForceDiff(costSol,
                              StackContact(costStatus, j))[StackComponent(j)]
       /\ \A rc \in DOMAIN QffVal :
            QffVal[rc] = costLog.Qff[rc]
              + (IF rc[1] = rc[2]
                 THEN costLog.dt
                        * LoggedWeight(StackContact(costStatus,
                                                    rc[1]))[StackComponent(rc[1])]
                 ELSE 0)

\* A stage evaluation with two active contacts that are not the first ones,
\* on stored values that are not zero.
C22_AddedInStackingOrder ==
  /\ costLog.op = "stage"
  /\ costStatus = {1, 3}
  /\ costLog.lf[1] # 0
  /\ lfVal # costLog.lf
  /\ costVal # RInt(0)

\* C26: for every time stage the backward sweep, the forward sweep and
\* computeDirection pass the same pair of switching-time flags (sto, sto_next).
C26_SameFlagsEverywhere ==
  (pc = "linesearch") =>
    \A s \in 0..(N - 1) : SweepFlags(s) = DirectionFlags(s)

\* The direction was computed on a horizon with a time stage just before an
\* event for which the sweeps and computeDirection differ in sto_next.
C26_FlagsDifferBeforeEvent ==
  /\ pc = "linesearch"
  /\ isFormulationTractable
  /\ \E s \in 0..(N - 1) :
       /\ isTimeStageBeforeImpulse(s) \/ isTimeStageBeforeLift(s)
       /\ SweepAssert(s)
       /\ SweepFlags(s)[1] = DirectionFlags(s)[1]
       /\ SweepFlags(s)[2] # DirectionFlags(s)[2]

\* C30: setParameters accepts exactly the pairs (period, gain) that the
\* constructor accepts, period > 0 and 0 < gain <= 1, so the gain stored by a
\* construction with arguments or by setParameters is in (0, 1] and the
\* stored period is positive.
C30_StoredGainAtMostOne ==
  (rh.state = "constructed" /\ rh.by \in {"constructor", "setParameters"}) =>
    /\ rh.period > 0
    /\ rh.gain > 0
    /\ rh.gain <= GainOne

\* setParameters has stored a gain above 1.0.
C30_GainAboveOneStored ==
  /\ rh.state = "constructed"
  /\ rh.by = "setParameters"
  /\ rh.period > 0
  /\ rh.gain > GainOne
  /\ ~CtorAccepts(rh.period, rh.gain)

\* The predecessor of a time stage by the priority impulse, lift, stage
\* before, initial state.
Predecessor(discretizer, time_stage) ==
  CHOOSE pre \in {"impulse", "lift", "stage", "initial"} \X (NoIndex..N) :
    /\ (pre[1] = "impulse") <=>
         /\ discretizer[time_stage].impulse # NoIndex
         /\ pre[2] = discretizer[time_stage].impulse
    /\ (pre[1] = "lift") <=>
         /\ discretizer[time_stage].impulse = NoIndex
         /\ discretizer[time_stage].lift # NoIndex
         /\ pre[2] = discretizer[time_stage].lift
    /\ (pre[1] = "stage") <=>
         /\ discretizer[time_stage].impulse = NoIndex
         /\ discretizer[time_stage].lift = NoIndex
         /\ time_stage > 0
         /\ pre[2] = time_stage - 1
    /\ (pre[1] = "initial") <=>
         /\ discretizer[time_stage].impulse = NoIndex
         /\ discretizer[time_stage].lift = NoIndex
         /\ time_stage = 0
         /\ pre[2] = 0

\* C28: q_prev and v_prev select the same predecessor of a time stage, by the
\* priority impulse, lift, time stage minus one, initial state, and never
\* the stage of index -1.
C28_SamePredecessor ==
  (bc.op = "prev") =>
    /\ bc.q = Predecessor(bc.discretizer, bc.time_stage) \o <<"q">>
    /\ bc.v = Predecessor(bc.discretizer, bc.time_stage) \o <<"v">>
    /\ bc.q[2] >= 0
    /\ bc.v[2] >= 0

\* The predecessors of time stage 0 without an event before it were asked
\* for, and those of a stage just after both an impulse and a lift.
C28_InitialStateSelected ==
  /\ bc.op = "prev"
  /\ bc.time_stage = 0
  /\ bc.discretizer[0] = [impulse |-> NoIndex, lift |-> NoIndex]
  /\ bc.discretizer[1] = [impulse |-> 1, lift |-> 0]
  /\ bc.q = <<"initial", 0, "q">>
  /\ bc.v = <<"initial", 0, "v">>

\* The contact phase that the Hamiltonian residual of a stage counts for.
PhaseOfH(st) ==
  IF st[1] = "stage" THEN contactPhase(st[2])
  ELSE IF st[1] = "aux" THEN contactPhaseAfterImpulse(st[2])
  ELSE contactPhaseAfterLift(st[2])

\* Sum of the Hamiltonian residuals of a set of stages.
RECURSIVE SumH(_)
SumH(S) ==
  IF S = {} THEN 0
  ELSE LET st == CHOOSE x \in S : TRUE IN stoKkt.h[st] + SumH(S \ {st})

\* H[p]: the Hamiltonian residual of contact phase p.
PhaseH(p) == SumH({st \in HStages : PhaseOfH(st) = p})

\* Sum of (H[e] - H[e+1])^2 over a set of events.
RECURSIVE SumSquaredHdiff(_)
SumSquaredHdiff(E) ==
  IF E = {} THEN 0
  ELSE LET e == CHOOSE x \in E : TRUE IN
         (PhaseH(e) - PhaseH(e + 1)) * (PhaseH(e) - PhaseH(e + 1))
           + SumSquaredHdiff(E \ {e})

\* The events whose switching time is optimized, by event index.
STOEvents == {e \in 0..(Len(disc) - 1) : disc[e + 1].sto}

\* C24: STO::KKTError(ocp, kkt_residual) is the square root of the sum, over
\* exactly the events whose STO flag is on, of (H[e] - H[e+1])^2, with H[p]
\* the sum of the Hamiltonian residuals of the time stages, aux stages and
\* lift stages of contact phase p; the flag of event e is the flag of the
\* impulse or lift whose event index is e.
C24_KKTErrorOverEnabledEvents ==
  /\ (stoLog.op = "KKTError") =>
       stoLog.ret = Sqrt(SumSquaredHdiff(STOEvents))
  /\ (stoEnabled /\ stoLog.op \in {"computeKKTResidual", "computeKKTSystem"}) =>
       sto.kkt_error = Sqrt(SumSquaredHdiff(STOEvents))

\* The error of a horizon with two impulses, the first with its flag off and
\* the second with its flag on, was computed and is not zero.
C24_SecondImpulseCounted ==
  /\ stoLog.op = "KKTError"
  /\ Len(disc) = 2
  /\ disc[1].type = "Impulse" /\ ~disc[1].sto
  /\ disc[2].type = "Impulse" /\ disc[2].sto
  /\ stoLog.ret # 0

\* C27: on a default-constructed STO object (switching-time optimization
\* disabled) any sequence of initConstraints, computeKKTResidual,
\* computeKKTSystem and integrateSolution leaves the KKT matrix, the KKT
\* residual and every event time unchanged, and KKTError() and totalCost()
\* stay 0.
C27_DisabledStoChangesNothing ==
  (~stoEnabled /\ sto # NoSTO) =>
    /\ sto = DefaultSTO
    /\ sto.kkt_error = 0
    /\ sto.cost_val = 0
    /\ (stoKkt # NoStoKkt) =>
         /\ stoKkt.residual = "stages"
         /\ stoKkt.matrix = "stages"
         /\ events = disc

\* integrateSolution has run on a default-constructed object, on a horizon
\* with an impulse and a lift whose switching times are marked for
\* optimization.
C27_IntegratedWhileDisabled ==
  /\ ~stoEnabled
  /\ stoLog.op = "integrateSolution"
  /\ Len(disc) = 2
  /\ disc[1].sto /\ disc[2].sto
  /\ disc[1].type # disc[2].type

\* The horizon fits objects built for max_num_impulse impulse events.
FitsCapacity(max_num_impulse) ==
  /\ N_impulse <= max_num_impulse
  /\ N_lift <= max_num_impulse

\* C29: on a horizon with at most max_num_impulse impulses and at most
\* max_num_impulse lifts, every index that computeDirection writes in the
\* step-size buffers is below N + 1 + 3 * max_num_impulse, and every index of
\* h_phase_ that STO::KKTError reads or writes is below
\* 2 * max_num_impulse + 1.
C29_IndicesInsideBuffers ==
  \A max_num_impulse \in 0..MaxEvents :
    FitsCapacity(max_num_impulse) =>
      /\ \A u \in dirWork :
           /\ u.primal >= 0 /\ u.primal < N + 1 + 3 * max_num_impulse
           /\ u.dual >= 0 /\ u.dual < N + 1 + 3 * max_num_impulse
      /\ Discretized =>
           \A p \in HPhaseIndices : p >= 0 /\ p < 2 * max_num_impulse + 1

\* The direction was computed on a horizon with one impulse and one lift,
\* which fills objects built for one impulse event: the last entries of the
\* buffers are used.
C29_LastEntriesUsed ==
  /\ pc = "linesearch"
  /\ N_impulse = 1 /\ N_lift = 1
  /\ FitsCapacity(1)
  /\ \E u \in dirWork : u.primal = N + 1 + 3 * 1 - 1
  /\ 2 * 1 \in HPhaseIndices

\* The position residual of the active contacts at a configuration, contact
\* by contact and component by component.
ResidualAt(status, q) ==
  [j \in 1..StatusDimf(status) |->
     LET c == StackContact(status, j)
         k == StackComponent(j)
     IN FrameOffset(c)[k] + q * FrameJacobian(c)[k] - ContactPoint(c)[k]]

\* C23: evalSwitchingConstraint and linearizeSwitchingConstraint give the
\* same residual, the contact-position residual at q integrated by
\* (dt1+dt2)*v + (dt1*dt2)*a; KKTError() is its squared 2-norm and
\* constraintViolation() its 1-norm; on a fixed base Phiq = Pq,
\* Phiv = (dt1+dt2)*Pq and Phia = (dt1*dt2)*Pq, which are the changes of the
\* residual per unit of q, v and a.
C23_SwitchingResidualAndJacobians ==
  (sc.op = "switching") =>
    LET q == sc.s.q + (sc.dt1 + sc.dt2) * sc.s.v + (sc.dt1 * sc.dt2) * sc.s.a
        P == ResidualAt(sc.status, q)
    IN /\ sc.eval.P = sc.lin.P
       /\ sc.eval.P = P
       /\ sc.KKTError = SumSeq([j \in DOMAIN P |-> P[j] * P[j]])
       /\ sc.constraintViolation = SumSeq([j \in DOMAIN P |-> Abs(P[j])])
       /\ sc.lin.Phiq = sc.lin.Pq
       /\ \A j \in DOMAIN P :
            /\ sc.lin.Phiv[j] = (sc.dt1 + sc.dt2) * sc.lin.Pq[j]
            /\ sc.lin.Phia[j] = (sc.dt1 * sc.dt2) * sc.lin.Pq[j]
            /\ sc.lin.Phiq[j] = ResidualAt(sc.status, q + 1)[j] - P[j]
            /\ sc.lin.Phiv[j] =
                 ResidualAt(sc.status, q + sc.dt1 + sc.dt2)[j] - P[j]
            /\ sc.lin.Phia[j] =
                 ResidualAt(sc.status, q + sc.dt1 * sc.dt2)[j] - P[j]

\* The constraint of two active impulses, not the first ones, was evaluated
\* with different interval lengths on a solution that moves.
C23_TwoImpulsesEvaluated ==
  /\ sc.op = "switching"
  /\ sc.status = {1, 3}
  /\ sc.dt1 # sc.dt2
  /\ sc.s.v # 0 /\ sc.s.a # 0
  /\ sc.eval.P # ContactPositionResidual(sc.status, sc.s.q)
  /\ sc.KKTError # sc.constraintViolation
====
